---- MODULE Spec2Model ----
(***************************************************************************)
(* Model of the vue-chart-library composables:                             *)
(*   - validators.js            validateChartData, validateNumericData,    *)
(*                              colour palette                             *)
(*   - useChartData.js          isValid / normalisedDatasets / isEmpty     *)
(*   - useDatasetVisibility.js  disabled-index set and visibleDatasets     *)
(*   - chartCalculations.js     getDataRange, calculateNiceScale,          *)
(*                              calculateStackedValues, pie slices,        *)
(*                              calculateBarWidth                          *)
(*   - useChartScale.js         dataRange, yScale, X and Y ticks,          *)
(*                              valueToY, valueToHeight                    *)
(*   - useBarDimensions.js      group and bar geometry                     *)
(*   - StackedChart.vue         stacked segments                           *)
(*   - LineChart.vue            X position of points and ticks             *)
(*   - useChartResize.js        debounce / updateDimensions / lifecycle    *)
(*   - BarChart.vue             template state selection, legend toggle,   *)
(*                              bar clicks                                 *)
(* JavaScript values are tagged records so that typeof, truthiness,        *)
(* Array.isArray and property reads can be evaluated as the code does.     *)
(***************************************************************************)
EXTENDS Integers, Sequences, FiniteSets, TLC

(* ------------------------------ bounds -------------------------------- *)

MaxLabels == 1

MaxDatasets == 2

MaxResizes == 2

MaxDirectCalls == 1

\* elements of an array handed to a function, datasets of a chart
MaxValues == 2

\* magnitude of the numbers handed to calculateNiceScale
MaxScaleValue == 3

\* range selector events (pointer, keyboard, reset) in one run
MaxEvents == 4

(* --------------------------- JavaScript values ------------------------ *)

Undefined == [t |-> "undefined"]

Null == [t |-> "null"]

Bool(b) == [t |-> "boolean", b |-> b]

Num(n) == [t |-> "number", n |-> n]

Str(s) == [t |-> "string", s |-> s]

Arr(a) == [t |-> "array", a |-> a]

Obj(f) == [t |-> "object", f |-> f]

TypeError == [t |-> "TypeError"]

EmptyRec == [k \in {} |-> Undefined]

\* !v
Truthy(v) ==
    CASE v.t = "undefined" -> FALSE
      [] v.t = "null" -> FALSE
      [] v.t = "boolean" -> v.b
      [] v.t = "number" -> v.n # 0
      [] v.t = "string" -> Len(v.s) > 0
      [] OTHER -> TRUE

\* typeof v
TypeOf(v) ==
    CASE v.t = "undefined" -> "undefined"
      [] v.t = "boolean" -> "boolean"
      [] v.t = "number" -> "number"
      [] v.t = "string" -> "string"
      [] OTHER -> "object"

\* Array.isArray(v)
IsArray(v) == v.t = "array"

\* v == null (null or undefined): a property read on it throws
Nullish(v) == v.t \in {"undefined", "null"}

\* v[k] for a value that is not null or undefined
Get(v, k) ==
    CASE v.t = "object" -> IF k \in DOMAIN v.f THEN v.f[k] ELSE Undefined
      [] v.t = "array" -> IF k = "length" THEN Num(Len(v.a)) ELSE Undefined
      [] v.t = "string" -> IF k = "length" THEN Num(Len(v.s)) ELSE Undefined
      [] OTHER -> Undefined

\* v?.k
OptGet(v, k) == IF Nullish(v) THEN Undefined ELSE Get(v, k)

\* a === b for the values compared in the code (numbers, undefined)
StrictEq(a, b) ==
    /\ a.t = b.t
    /\ a.t = "number" => a.n = b.n
    /\ a.t \in {"undefined", "null", "number"}

(* ------------------------------ validators.js ------------------------- *)

\* the callback of data.datasets.every(...), for one dataset
datasetOk_noLength(dataset, labels) ==
    /\ Truthy(dataset)
    /\ TypeOf(dataset) = "object"
    /\ IsArray(Get(dataset, "data"))

datasetOk(dataset, labels) ==
    /\ Truthy(dataset)
    /\ TypeOf(dataset) = "object"
    /\ IsArray(Get(dataset, "data"))
    /\ StrictEq(Get(Get(dataset, "data"), "length"), Get(labels, "length"))

RECURSIVE every(_, _)
every(datasets, labels) ==
    IF datasets = <<>> THEN TRUE
    ELSE IF ~datasetOk(Head(datasets), labels) THEN FALSE
    ELSE every(Tail(datasets), labels)

validateChartData(data) ==
    IF ~Truthy(data) \/ TypeOf(data) # "object" THEN Bool(FALSE)
    ELSE IF Nullish(data) THEN TypeError   \* data.labels on null or undefined throws
    ELSE IF ~IsArray(Get(data, "labels")) THEN Bool(FALSE)
    ELSE IF ~IsArray(Get(data, "datasets")) THEN Bool(FALSE)
    ELSE IF StrictEq(Get(Get(data, "datasets"), "length"), Num(0)) THEN Bool(FALSE)
    ELSE Bool(every(Get(data, "datasets").a, Get(data, "labels")))

(* ------------------------------ useChartData.js ----------------------- *)

DEFAULT_COLORS ==
    << "#3b82f6", "#8b5cf6", "#10b981", "#f59e0b", "#ef4444",
       "#06b6d4", "#ec4899", "#14b8a6", "#f97316", "#a855f7" >>

\* palette[index % palette.length]; TLA+ sequences are 1-based
getColorByIndex(index, palette) == palette[(index % Len(palette)) + 1]

generateColorPalette(count, customPalette) ==
    LET palette == IF Truthy(customPalette) THEN customPalette.a ELSE DEFAULT_COLORS
    IN  [i \in 1..count |-> getColorByIndex(i - 1, palette)]

isValid(data) == validateChartData(data)

\* a || b
OrElse(a, b) == IF Truthy(a) THEN a ELSE b

\* a ?? b
Coalesce(a, b) == IF Nullish(a) THEN b ELSE a

\* one element of data.datasets.map(...): the spread copy with defaults
normaliseDataset(dataset, index, colors) ==
    LET own == IF dataset.t = "object" THEN dataset.f ELSE EmptyRec
        colour == Str(colors[(index % Len(colors)) + 1])
        over == [backgroundColor |-> OrElse(Get(dataset, "backgroundColor"), colour),
                 borderColor |-> OrElse(Get(dataset, "borderColor"),
                                        OrElse(Get(dataset, "backgroundColor"), colour)),
                 borderWidth |-> Coalesce(Get(dataset, "borderWidth"), Num(1)),
                 label |-> OrElse(Get(dataset, "label"),
                                  Str("Dataset " \o ToString(index + 1)))]
    IN  Obj([k \in DOMAIN own \cup DOMAIN over |->
                IF k \in DOMAIN over THEN over[k] ELSE own[k]])

normalisedDatasets(data, options) ==
    IF ~Truthy(data) \/ ~Truthy(Get(data, "datasets")) THEN Arr(<<>>)
    ELSE LET datasets == Get(data, "datasets").a
             colors == generateColorPalette(Len(datasets), OptGet(options, "colors"))
         IN  Arr([i \in 1..Len(datasets) |-> normaliseDataset(datasets[i], i - 1, colors)])

\* data.value?.datasets?.length || 0
datasetCount(data) == OrElse(OptGet(OptGet(data, "datasets"), "length"), Num(0))

\* data.value?.labels?.length || 0
dataPointCount(data) == OrElse(OptGet(OptGet(data, "labels"), "length"), Num(0))

\* data.value?.labels || []
labels(data) == OrElse(OptGet(data, "labels"), Arr(<<>>))

isEmpty(data) ==
    StrictEq(datasetCount(data), Num(0)) \/ StrictEq(dataPointCount(data), Num(0))

(* -------------------- BarChart.vue / PieChart.vue template ------------ *)

\* the groups of the v-if / v-else-if / v-else chain that are rendered
renderTemplate_invalidFirst(empty, valid) ==
    IF ~valid THEN {"invalid"} ELSE IF empty THEN {"empty"} ELSE {"content"}

renderTemplate(empty, valid) ==
    IF empty THEN {"empty"} ELSE IF ~valid THEN {"invalid"} ELSE {"content"}

(* --------------------------- useDatasetVisibility.js ------------------ *)

InitDisabled_preset == {0}

InitDisabled == {}

\* datasets.value.filter((_, index) => !disabledDatasets.value.has(index))
RECURSIVE filterVisible(_, _, _)
filterVisible(a, index, disabled) ==
    IF a = <<>> THEN <<>>
    ELSE (IF index \notin disabled THEN <<Head(a)>> ELSE <<>>)
         \o filterVisible(Tail(a), index + 1, disabled)

visibleDatasets_keepDisabled(datasets, disabled) ==
    IF ~Truthy(datasets) THEN Arr(<<>>)
    ELSE Arr(filterVisible(datasets.a, 0, {i \in 0..Len(datasets.a) : i \notin disabled}))

visibleDatasets(datasets, disabled) ==
    IF ~Truthy(datasets) THEN Arr(<<>>)
    ELSE Arr(filterVisible(datasets.a, 0, disabled))

toggleDataset_swappedReturn(disabled, index) ==
    IF index \in disabled
    THEN [disabled |-> disabled \ {index}, ret |-> TRUE]
    ELSE [disabled |-> disabled \cup {index}, ret |-> FALSE]

toggleDataset_addOnly(disabled, index) ==
    [disabled |-> disabled \cup {index}, ret |-> index \notin disabled]

toggleDataset(disabled, index) ==
    IF index \in disabled
    THEN [disabled |-> disabled \ {index}, ret |-> FALSE]
    ELSE [disabled |-> disabled \cup {index}, ret |-> TRUE]

isDatasetDisabled(disabled, index) == index \in disabled

showAllDatasets(disabled) == {}

hideAllDatasets(datasets, disabled) ==
    IF ~Truthy(datasets) THEN disabled
    ELSE {i - 1 : i \in 1..Len(datasets.a)}

handleLegendToggle(disabled, event) == toggleDataset(disabled, event.index)

(* ----------------- chartCalculations.js / useChartScale.js ------------ *)

\* stand-ins for the IEEE values Infinity and -Infinity: beyond every value
Infinity == 1000000

NegInfinity == -1000000

RECURSIVE scanValues(_, _)
scanValues(values, range) ==
    IF values = <<>> THEN range
    ELSE LET value == Head(values).n
             min1 == IF value < range.min THEN value ELSE range.min
             max1 == IF value > range.max THEN value ELSE range.max
         IN  scanValues(Tail(values), [min |-> min1, max |-> max1])

RECURSIVE scanDatasets(_, _)
scanDatasets(datasets, range) ==
    IF datasets = <<>> THEN range
    ELSE scanDatasets(Tail(datasets), scanValues(Get(Head(datasets), "data").a, range))

getDataRange(datasets) ==
    scanDatasets(datasets.a, [min |-> Infinity, max |-> NegInfinity])

\* useChartScale(visibleDatasets, computed(() => ({})), scales): not stacked
dataRange_allDatasets(normalised, visible) == getDataRange(normalised)

dataRange(normalised, visible) == getDataRange(visible)

(* ------------------------------ useChartResize.js --------------------- *)

\* getBoundingClientRect() reports fractional CSS pixels: sizes are counted
\* in units of 1/SubPx pixel
SubPx == 2

\* debounce(updateDimensions, 16)
Wait == 16

\* Math.floor(rect.width)
Floor_ceil(x) == (x + SubPx - 1) \div SubPx

Floor(x) == x \div SubPx

\* cancelAnimationFrame(rafId), guarded by if (rafId)
cancelFrame(pending, id) == IF id # 0 THEN pending \ {id} ELSE pending

\* updateDimensions, on f = [rafId, pendingFrames, nextFrameId]
updateDimensions_noCancel(f) ==
    [rafId |-> f.nextFrameId,
     pendingFrames |-> f.pendingFrames \cup {f.nextFrameId},
     nextFrameId |-> f.nextFrameId + 1]

updateDimensions(f) ==
    [rafId |-> f.nextFrameId,
     pendingFrames |-> cancelFrame(f.pendingFrames, f.rafId) \cup {f.nextFrameId},
     nextFrameId |-> f.nextFrameId + 1]

\* the body of the requestAnimationFrame callback, on cur = [width, height,
\* callbackArg]
frameCallback(present, r, cb, cur) ==
    IF present
    THEN [width |-> Floor(r.width),
          height |-> Floor(r.height),
          callbackArg |-> IF cb THEN [width |-> Floor(r.width),
                                      height |-> Floor(r.height)]
                          ELSE cur.callbackArg]
    ELSE cur

\* clearTimeout(id)
clearTimeout(tms, id) == {tm \in tms : tm.id # id}

\* debounce: executedFunction, on d = [timers, timeout, nextTimerId]
executedFunction_noClear(d) ==
    [timers |-> d.timers \cup {[id |-> d.nextTimerId, remaining |-> Wait]},
     timeout |-> d.nextTimerId,
     nextTimerId |-> d.nextTimerId + 1]

executedFunction(d) ==
    [timers |-> clearTimeout(d.timers, d.timeout)
                \cup {[id |-> d.nextTimerId, remaining |-> Wait]},
     timeout |-> d.nextTimerId,
     nextTimerId |-> d.nextTimerId + 1]

\* debounce: later, run for the due timer tm; the timers it leaves pending
later(tms, tm, latest) == clearTimeout(tms \ {tm}, latest)

(* ------------------------------- input sets --------------------------- *)

NumValues == {Num(-2), Num(3)}

SeqsUpTo(S, n) == UNION {[1..k -> S] : k \in 0..n}

LabelSeq(n) == [i \in 1..n |-> Str("L" \o ToString(i))]

\* chart data whose datasets all have one value per label
VisData ==
    UNION {
        {Obj([labels |-> Arr(LabelSeq(L)), datasets |-> Arr(ds)]) :
            ds \in SeqsUpTo({Obj([data |-> Arr(v)]) : v \in [1..L -> NumValues]},
                            MaxDatasets)} :
        L \in 0..MaxLabels}

OptionValues ==
    {Obj(EmptyRec),
     Obj([scales |-> Obj([y |-> Obj([beginAtZero |-> Bool(FALSE)])])])}

\* container sizes, in 1/SubPx pixels
Rects == {[width |-> 5, height |-> 3], [width |-> 8, height |-> 7]}

\* what a caller may put in one slot of data.datasets
DatasetValues ==
    {Null, Undefined, Num(1), Str("d"), Arr(<<>>), Obj(EmptyRec),
     Obj([data |-> Str("ab")]), Obj([data |-> Null])}
    \cup {Obj([data |-> Arr(v)]) : v \in SeqsUpTo({Num(1)}, MaxLabels)}

LabelsValues ==
    {Undefined, Null, Str("ab"), Obj(EmptyRec)}
    \cup {Arr(LabelSeq(n)) : n \in 0..MaxLabels}

DatasetsValues ==
    {Undefined, Null, Str("ab"), Obj(EmptyRec)}
    \cup {Arr(ds) : ds \in SeqsUpTo(DatasetValues, MaxDatasets)}

\* what a caller may pass as the data prop
DataUniverse ==
    {Undefined, Null, Num(5), Str("data"), Arr(<<>>), Obj(EmptyRec)}
    \cup {Obj([labels |-> l]) : l \in LabelsValues}
    \cup {Obj([datasets |-> d]) : d \in DatasetsValues}
    \cup {Obj([labels |-> l, datasets |-> d]) : l \in LabelsValues, d \in DatasetsValues}

(* ------------------------ numbers in calculations --------------------- *)

\* A number in a calculation is a finite value n/d in lowest terms, NaN, or
\* an infinity of sign s; the operators follow IEEE 754 on the special values
\* and are exact on the finite ones.
Q(n, d) ==
    LET RECURSIVE gcd(_, _)
        gcd(a, b) == IF b = 0 THEN a ELSE gcd(b, a % b)
        abs(x) == IF x < 0 THEN -x ELSE x
        s == IF d < 0 THEN -1 ELSE 1
        g == gcd(abs(n), abs(d))
    IN  [k |-> "fin", n |-> (s * n) \div g, d |-> abs(d) \div g]

NaN == [k |-> "nan"]

Inf(s) == [k |-> "inf", s |-> s]

Sgn(a) ==
    IF a.k = "inf" THEN a.s
    ELSE IF a.n < 0 THEN -1 ELSE IF a.n = 0 THEN 0 ELSE 1

\* a + b
Plus(a, b) ==
    IF a.k = "nan" \/ b.k = "nan" THEN NaN
    ELSE IF a.k = "inf" THEN (IF b.k = "inf" /\ b.s # a.s THEN NaN ELSE a)
    ELSE IF b.k = "inf" THEN b
    ELSE Q(a.n * b.d + b.n * a.d, a.d * b.d)

\* a - b
Minus(a, b) ==
    Plus(a, IF b.k = "nan" THEN NaN
            ELSE IF b.k = "inf" THEN Inf(-b.s)
            ELSE Q(-b.n, b.d))

\* a * b
Times(a, b) ==
    IF a.k = "nan" \/ b.k = "nan" THEN NaN
    ELSE IF a.k = "inf" \/ b.k = "inf"
         THEN (IF Sgn(a) = 0 \/ Sgn(b) = 0 THEN NaN ELSE Inf(Sgn(a) * Sgn(b)))
    ELSE Q(a.n * b.n, a.d * b.d)

\* a / b
Over(a, b) ==
    IF a.k = "nan" \/ b.k = "nan" THEN NaN
    ELSE IF a.k = "inf"
         THEN (IF b.k = "inf" THEN NaN
               ELSE Inf(a.s * (IF Sgn(b) < 0 THEN -1 ELSE 1)))
    ELSE IF b.k = "inf" THEN Q(0, 1)
    ELSE IF b.n = 0 THEN (IF a.n = 0 THEN NaN ELSE Inf(Sgn(a)))
    ELSE Q(a.n * b.d, a.d * b.n)

\* a <= b
Leq(a, b) ==
    IF a.k = "nan" \/ b.k = "nan" THEN FALSE
    ELSE IF a.k = "inf" THEN (a.s = -1 \/ b = a)
    ELSE IF b.k = "inf" THEN b.s = 1
    ELSE a.n * b.d <= b.n * a.d

\* a < b
Less(a, b) == Leq(a, b) /\ a # b

IsFinite(a) == a.k = "fin"

\* Math.floor(a)
MathFloor(a) == IF a.k # "fin" THEN a ELSE Q(a.n \div a.d, 1)

\* Math.ceil(a)
MathCeil(a) == IF a.k # "fin" THEN a ELSE Q(-((-a.n) \div a.d), 1)

\* Math.floor(Math.log10(a)): for a finite a > 0 the integer k with
\* 10^k <= a < 10^(k+1)
FloorLog10(a) ==
    LET RECURSIVE magnitude(_)
        magnitude(x) ==
            IF Less(x, Q(1, 1)) THEN magnitude(Times(x, Q(10, 1))) - 1
            ELSE IF Less(x, Q(10, 1)) THEN 0
            ELSE magnitude(Over(x, Q(10, 1))) + 1
    IN  IF a.k = "nan" THEN NaN
        ELSE IF a.k = "inf" THEN (IF a.s = 1 THEN a ELSE NaN)
        ELSE IF a.n < 0 THEN NaN
        ELSE IF a.n = 0 THEN Inf(-1)
        ELSE Q(magnitude(a), 1)

\* Math.pow(10, m), m integral or special
Pow10(m) ==
    LET RECURSIVE tenTo(_)
        tenTo(e) == IF e = 0 THEN 1 ELSE 10 * tenTo(e - 1)
    IN  IF m.k = "nan" THEN NaN
        ELSE IF m.k = "inf" THEN (IF m.s = 1 THEN m ELSE Q(0, 1))
        ELSE IF m.n >= 0 THEN Q(tenTo(m.n), 1) ELSE Q(1, tenTo(-m.n))

(* ------------------------ validators.js: numbers ---------------------- *)

\* a JS number holding any IEEE value
Number(x) == [t |-> "number", n |-> x]

validateNumericData(data) ==
    LET isNaN(value) == value.n.k = "nan"
    IN  IF ~IsArray(data) THEN FALSE
        ELSE \A i \in 1..Len(data.a) :
                TypeOf(data.a[i]) = "number" /\ ~isNaN(data.a[i])

(* ------------------- chartCalculations.js: nice scale ----------------- *)

calculateNiceScale(min, max, ticks) ==
    LET range == Minus(max, min)
        roughStep == Over(range, Minus(ticks, Q(1, 1)))
        magnitude == FloorLog10(roughStep)
        magnitudePower == Pow10(magnitude)
        possibleSteps == <<1, 2, 5, 10>>
        testStep(i) == Times(Q(possibleSteps[i], 1), magnitudePower)
        hits == {i \in 1..Len(possibleSteps) : Leq(roughStep, testStep(i))}
        niceStep == IF hits = {} THEN testStep(1)
                    ELSE testStep(CHOOSE i \in hits : \A j \in hits : i <= j)
        niceMin == Times(MathFloor(Over(min, niceStep)), niceStep)
        niceMax == Times(MathCeil(Over(max, niceStep)), niceStep)
        \* Math.round(x) is Math.floor(x + 0.5)
        rounded == MathFloor(Plus(Over(Minus(niceMax, niceMin), niceStep), Q(1, 2)))
    IN  [min |-> niceMin, max |-> niceMax, step |-> niceStep,
         ticks |-> Plus(rounded, Q(1, 1))]

\* stacked[index] += value over all datasets, for data arrays of one length
calculateStackedValues(datasets) ==
    IF Len(datasets.a) = 0 THEN <<>>
    ELSE LET length == Len(Get(datasets.a[1], "data").a)
             RECURSIVE sum(_, _)
             sum(index, d) ==
                 IF d > Len(datasets.a) THEN 0
                 ELSE Get(datasets.a[d], "data").a[index].n + sum(index, d + 1)
         IN  [index \in 1..length |-> sum(index, 1)]

(* --------------------------- useChartScale.js ------------------------- *)

\* a number of the data as a number of the scale calculation
ToNumber(i) ==
    IF i = Infinity THEN Inf(1) ELSE IF i = NegInfinity THEN Inf(-1) ELSE Q(i, 1)

\* the dataRange computed of useChartScale, stacked or not
scaleDataRange(datasets, chartArea) ==
    LET isStacked == OptGet(chartArea, "stacked") = Bool(TRUE)
        stackedValues == calculateStackedValues(datasets)
        RECURSIVE spreadMin(_, _)
        spreadMin(values, m) ==
            IF values = <<>> THEN m
            ELSE spreadMin(Tail(values), IF Head(values) < m THEN Head(values) ELSE m)
        RECURSIVE spreadMax(_, _)
        spreadMax(values, m) ==
            IF values = <<>> THEN m
            ELSE spreadMax(Tail(values), IF Head(values) > m THEN Head(values) ELSE m)
    IN  IF isStacked
        THEN IF Len(stackedValues) = 0 THEN [min |-> 0, max |-> 10]
             ELSE [min |-> spreadMin(stackedValues, 0),
                   max |-> spreadMax(stackedValues, NegInfinity)]
        ELSE getDataRange(datasets)

yScale(datasets, chartArea, scaleConfig) ==
    LET range == scaleDataRange(datasets, chartArea)
        beginAtZero == OptGet(OptGet(scaleConfig, "y"), "beginAtZero") # Bool(FALSE)
        min == ToNumber(range.min)
    IN  calculateNiceScale(
            IF beginAtZero THEN (IF Leq(Q(0, 1), min) THEN Q(0, 1) ELSE min) ELSE min,
            ToNumber(range.max),
            Q(5, 1))

valueToY(scale, value, area) ==
    LET normalizedValue == Over(Minus(value, scale.min), Minus(scale.max, scale.min))
    IN  Minus(Plus(area.y, area.height), Times(normalizedValue, area.height))

valueToHeight(scale, value, area) ==
    LET normalizedValue == Over(Minus(value, scale.min), Minus(scale.max, scale.min))
    IN  Times(normalizedValue, area.height)

\* what a for loop that never ends yields
Diverges == [k |-> "diverges"]

\* for (value = min; value <= max; value += step): the y of every tick,
\* computed as valueToY computes it
generateYAxisTicks(scale, area) ==
    LET RECURSIVE tickLoop(_)
        tickLoop(value) ==
            IF ~Leq(value, scale.max) THEN <<>>
            ELSE <<valueToY(scale, value, area)>> \o tickLoop(Plus(value, scale.step))
    IN  IF Leq(scale.min, scale.max) /\ Leq(scale.step, Q(0, 1)) THEN Diverges
        ELSE tickLoop(scale.min)

(* -------------------- chartCalculations.js: pie slices ---------------- *)

calculatePercentages(data) ==
    LET RECURSIVE reduce(_, _)
        reduce(sum, i) == IF i > Len(data) THEN sum ELSE reduce(Plus(sum, data[i]), i + 1)
        total == reduce(Q(0, 1), 1)
    IN  IF total = Q(0, 1) THEN [i \in 1..Len(data) |-> Q(0, 1)]
        ELSE [i \in 1..Len(data) |-> Times(Over(data[i], total), Q(100, 1))]

calculatePieSlices(data) ==
    LET percentages == calculatePercentages(data)
        angle(i) == Times(Over(percentages[i], Q(100, 1)), Q(360, 1))
        RECURSIVE forEach(_, _, _)
        forEach(slices, currentAngle, i) ==
            IF i > Len(percentages) THEN slices
            ELSE forEach(Append(slices, [startAngle |-> currentAngle,
                                         endAngle |-> Plus(currentAngle, angle(i)),
                                         percentage |-> percentages[i],
                                         value |-> data[i]]),
                         Plus(currentAngle, angle(i)), i + 1)
    IN  forEach(<<>>, Q(-90, 1), 1)

(* ------------------- useBarDimensions.js / bar geometry --------------- *)

\* chartCalculations.js
calculateBarWidth(chartWidth, dataLength, padding) ==
    LET availableWidth == Over(chartWidth, dataLength)
    IN  Times(availableWidth, Minus(Q(1, 1), padding))

\* c holds what useBarDimensions closes over: labels.value?.length || 0,
\* visibleDatasets.value?.length || 0, gapRatio and stacked
getGroupWidth(c, chartArea) ==
    IF c.labelCount = 0 THEN Q(0, 1)
    ELSE Over(chartArea.width, Q(c.labelCount, 1))

getBarWidth(c, chartArea) ==
    IF c.labelCount = 0 THEN Q(0, 1)
    ELSE LET groupWidth == getGroupWidth(c, chartArea)
         IN  IF c.stacked THEN calculateBarWidth(groupWidth, Q(1, 1), c.gapRatio)
             ELSE calculateBarWidth(groupWidth, Q(c.datasetCount, 1), c.gapRatio)

getBarX_noPadding(c, labelIndex, datasetIndex, chartArea) ==
    IF c.labelCount = 0 THEN Q(0, 1)
    ELSE LET groupWidth == getGroupWidth(c, chartArea)
             groupStart == Plus(chartArea.x, Times(groupWidth, Q(labelIndex, 1)))
             barW == getBarWidth(c, chartArea)
         IN  IF c.stacked THEN Plus(groupStart, Over(Minus(groupWidth, barW), Q(2, 1)))
             ELSE Plus(groupStart, Times(barW, Q(datasetIndex, 1)))

getBarX(c, labelIndex, datasetIndex, chartArea) ==
    IF c.labelCount = 0 THEN Q(0, 1)
    ELSE LET groupWidth == getGroupWidth(c, chartArea)
             groupStart == Plus(chartArea.x, Times(groupWidth, Q(labelIndex, 1)))
             barW == getBarWidth(c, chartArea)
         IN  IF c.stacked THEN Plus(groupStart, Over(Minus(groupWidth, barW), Q(2, 1)))
             ELSE LET totalBarsWidth == Times(barW, Q(c.datasetCount, 1))
                      groupPadding == Over(Minus(groupWidth, totalBarsWidth), Q(2, 1))
                  IN  Plus(Plus(groupStart, groupPadding), Times(barW, Q(datasetIndex, 1)))

\* the chart component's own getBarWidth and getBarX, gap 0.2
inlineGetBarWidth(c, chartArea) ==
    IF c.labelCount = 0 THEN Q(0, 1)
    ELSE calculateBarWidth(Over(chartArea.width, Q(c.labelCount, 1)),
                           Q(c.datasetCount, 1), Q(1, 5))

inlineGetBarX(c, labelIndex, datasetIndex, chartArea) ==
    IF c.labelCount = 0 THEN Q(0, 1)
    ELSE LET groupWidth == Over(chartArea.width, Q(c.labelCount, 1))
             groupStart == Plus(chartArea.x, Times(groupWidth, Q(labelIndex, 1)))
             barW == inlineGetBarWidth(c, chartArea)
         IN  Plus(Plus(groupStart, Times(barW, Q(datasetIndex, 1))),
                  Over(Minus(groupWidth, Times(barW, Q(c.datasetCount, 1))), Q(2, 1)))

(* ---------------------------- StackedChart.vue ------------------------ *)

\* per label, the bars the forEach over visibleDatasets.value pushes
stackedBars(visibleSets, labelCount) ==
    LET RECURSIVE forEach(_, _, _, _)
        forEach(labelIndex, labelBars, cumulativeValue, datasetIndex) ==
            IF datasetIndex >= Len(visibleSets.a) THEN labelBars
            ELSE LET dataset == visibleSets.a[datasetIndex + 1]
                     values == Get(dataset, "data").a
                     value == OrElse(IF labelIndex < Len(values)
                                         THEN values[labelIndex + 1] ELSE Undefined,
                                     Num(0)).n
                 IN  IF value > 0
                     THEN forEach(labelIndex,
                                  Append(labelBars,
                                         [value |-> value,
                                          datasetIndex |-> datasetIndex,
                                          cumulativeValue |-> cumulativeValue]),
                                  cumulativeValue + value, datasetIndex + 1)
                     ELSE forEach(labelIndex, labelBars, cumulativeValue,
                                  datasetIndex + 1)
    IN  [l \in 1..labelCount |-> forEach(l - 1, <<>>, 0, 0)]

\* the segment's rectangle; scale is yScale.value of the stacked scale
calculateBarDimensions(labelIndex, bar, chartArea, labelCount, scale) ==
    IF labelCount = 0
    THEN [x |-> Q(0, 1), y |-> Q(0, 1), width |-> Q(0, 1), height |-> Q(0, 1)]
    ELSE LET groupWidth == Over(chartArea.width, Q(labelCount, 1))
             barWidth == calculateBarWidth(groupWidth, Q(1, 1), Q(3, 10))
             groupStart == Plus(chartArea.x, Times(groupWidth, Q(labelIndex, 1)))
             stackTop == bar.cumulativeValue + bar.value
         IN  [x |-> Plus(groupStart, Over(Minus(groupWidth, barWidth), Q(2, 1))),
              y |-> valueToY(scale, Q(stackTop, 1), chartArea),
              width |-> barWidth,
              height |-> valueToHeight(scale, Q(bar.value, 1), chartArea),
              value |-> bar.value,
              datasetIndex |-> bar.datasetIndex,
              cumulativeValue |-> bar.cumulativeValue]

getStackedBarsForRender(visibleSets, labelCount, scales, chartArea) ==
    LET scale == yScale(visibleSets, Obj([stacked |-> Bool(TRUE)]), scales)
        bars == stackedBars(visibleSets, labelCount)
    IN  [l \in 1..labelCount |->
            [k \in 1..Len(bars[l]) |->
                calculateBarDimensions(l - 1, bars[l][k], chartArea, labelCount, scale)]]

(* --------------------- useChartScale.js: X axis ticks ----------------- *)

generateXAxisTicks_alwaysCentered(area, tickLabels, tickOptions) ==
    LET labelCount == Len(tickLabels)
    IN  [i \in 1..labelCount |->
            [value |-> tickLabels[i],
             x |-> Plus(area.x, Times(Over(area.width, Q(labelCount, 1)),
                                      Q(2 * (i - 1) + 1, 2))),
             y |-> Plus(area.y, area.height),
             textAnchor |-> "middle"]]

generateXAxisTicks(area, tickLabels, tickOptions) ==
    LET labelCount == Len(tickLabels)
        \* options = {}: the default stands in for undefined
        options == IF tickOptions = Undefined THEN Obj(EmptyRec) ELSE tickOptions
        isFlush == Get(options, "flush") = Bool(TRUE)
        tick(index) ==
            LET x == IF isFlush
                     THEN IF labelCount = 1
                          THEN Plus(area.x, Over(area.width, Q(2, 1)))
                          ELSE Plus(area.x, Times(Over(area.width, Q(labelCount - 1, 1)),
                                                  Q(index, 1)))
                     ELSE Plus(area.x, Times(Over(area.width, Q(labelCount, 1)),
                                             Q(2 * index + 1, 2)))
                 textAnchor == IF isFlush /\ labelCount # 1
                               THEN IF index = 0 THEN "start"
                                    ELSE IF index = labelCount - 1 THEN "end"
                                    ELSE "middle"
                               ELSE "middle"
            IN  [value |-> tickLabels[index + 1], x |-> x,
                 y |-> Plus(area.y, area.height), textAnchor |-> textAnchor]
    IN  IF labelCount = 0 THEN <<>>
        ELSE [i \in 1..labelCount |-> tick(i - 1)]

(* ------------------------------ LineChart.vue ------------------------- *)

getXAxisTicks(scales, chartLabels, chartArea) ==
    LET xAxisOptions ==
            Obj([flush |-> Bool(OptGet(OptGet(scales, "x"), "flush") = Bool(TRUE))])
    IN  generateXAxisTicks(chartArea, chartLabels, xAxisOptions)

getXPosition_alwaysCentered(scales, chartLabels, index, chartArea) ==
    LET labelCount == Len(chartLabels)
    IN  IF labelCount = 0 THEN chartArea.x
        ELSE Plus(chartArea.x, Times(Over(chartArea.width, Q(labelCount, 1)),
                                     Q(2 * index + 1, 2)))

getXPosition(scales, chartLabels, index, chartArea) ==
    LET labelCount == Len(chartLabels)
        isFlush == OptGet(OptGet(scales, "x"), "flush") = Bool(TRUE)
    IN  IF labelCount = 0 THEN chartArea.x
        ELSE IF isFlush
             THEN IF labelCount = 1
                  THEN Plus(chartArea.x, Over(chartArea.width, Q(2, 1)))
                  ELSE Plus(chartArea.x,
                            Times(Over(chartArea.width, Q(labelCount - 1, 1)), Q(index, 1)))
             ELSE Plus(chartArea.x, Times(Over(chartArea.width, Q(labelCount, 1)),
                                          Q(2 * index + 1, 2)))

(* ----------------------------- BarChart.vue: click -------------------- *)

handleBarClick(chartLabels, labelIndex, datasetIndex, value) ==
    [label |-> chartLabels.a[labelIndex + 1],
     datasetIndex |-> datasetIndex,
     value |-> value]

(* ------------------------ StackedChart.vue: events -------------------- *)

\* tooltip.value after handleBarHover; c is the component's isInteractive,
\* visibleDatasets, labels and tooltip, and tooltip is left as it was when
\* the chart is not interactive
StackedChart_handleBarHover(c, labelIndex, datasetIndex, value, event) ==
    IF ~c.isInteractive THEN c.tooltip
    ELSE LET dataset == c.visibleDatasets.a[datasetIndex + 1]
         IN  [visible |-> TRUE,
              x |-> event.clientX + 10,
              y |-> event.clientY - 10,
              data |-> [title |-> c.labels.a[labelIndex + 1],
                        items |-> <<[label |-> Get(dataset, "label"),
                                     value |-> value,
                                     color |-> Get(dataset, "backgroundColor")]>>]]

\* the bar-click event emitted
StackedChart_handleBarClick(chartLabels, labelIndex, datasetIndex, value) ==
    [label |-> chartLabels.a[labelIndex + 1],
     datasetIndex |-> datasetIndex,
     value |-> value]

(* --------------------------- useRangeSelector.js ---------------------- *)

\* Math.max(a, b) and Math.min(a, b): NaN when either argument is NaN
MathMax(a, b) == IF a.k = "nan" \/ b.k = "nan" THEN NaN ELSE IF Leq(a, b) THEN b ELSE a

MathMin(a, b) == IF a.k = "nan" \/ b.k = "nan" THEN NaN ELSE IF Leq(a, b) THEN a ELSE b

handleDrag_movesWindow(s, minWidth, event) ==
    IF ~s.isDragging \/ s.dragContainerRect = Null
    THEN [rangeStart |-> s.rangeStart, rangeEnd |-> s.rangeEnd, emit |-> FALSE]
    ELSE LET deltaX == event.clientX - s.dragStartX
             deltaPercent == Times(Over(Q(deltaX, 1), Q(s.dragContainerRect.width, 1)),
                                   Q(100, 1))
             moved == Plus(s.dragStartValue, deltaPercent)
         IN  [rangeStart |->
                  IF s.dragType = "start"
                  THEN MathMax(Q(0, 1), MathMin(Minus(s.rangeEnd, minWidth), moved))
                  ELSE s.rangeStart,
              rangeEnd |->
                  MathMin(Q(100, 1), MathMax(Plus(s.rangeStart, minWidth), moved)),
              emit |-> TRUE]

\* the range after handleDrag(event) and whether emitChange is called; s is
\* the composable's state, event a mouse event (getClientX is its clientX)
handleDrag(s, minWidth, event) ==
    IF ~s.isDragging \/ s.dragContainerRect = Null
    THEN [rangeStart |-> s.rangeStart, rangeEnd |-> s.rangeEnd, emit |-> FALSE]
    ELSE LET deltaX == event.clientX - s.dragStartX
             deltaPercent == Times(Over(Q(deltaX, 1), Q(s.dragContainerRect.width, 1)),
                                   Q(100, 1))
             moved == Plus(s.dragStartValue, deltaPercent)
         IN  [rangeStart |->
                  IF s.dragType = "start"
                  THEN MathMax(Q(0, 1), MathMin(Minus(s.rangeEnd, minWidth), moved))
                  ELSE s.rangeStart,
              rangeEnd |->
                  IF s.dragType = "end"
                  THEN MathMin(Q(100, 1), MathMax(Plus(s.rangeStart, minWidth), moved))
                  ELSE s.rangeEnd,
              emit |-> TRUE]

handleKeydown_noMinWidth(s, minWidth, event, type) ==
    LET step == IF event.shiftKey THEN Q(10, 1) ELSE Q(1, 1)
        isStart == type = "start"
    IN  CASE event.key = "ArrowLeft" ->
               [rangeStart |-> IF isStart THEN MathMax(Q(0, 1), Minus(s.rangeStart, step))
                               ELSE s.rangeStart,
                rangeEnd |-> IF isStart THEN s.rangeEnd
                             ELSE MathMax(Q(0, 1), Minus(s.rangeEnd, step)),
                updated |-> TRUE]
          [] event.key = "ArrowRight" ->
               [rangeStart |-> IF isStart
                               THEN MathMin(Q(100, 1), Plus(s.rangeStart, step))
                               ELSE s.rangeStart,
                rangeEnd |-> IF isStart THEN s.rangeEnd
                             ELSE MathMin(Q(100, 1), Plus(s.rangeEnd, step)),
                updated |-> TRUE]
          [] event.key = "Home" ->
               [rangeStart |-> IF isStart THEN Q(0, 1) ELSE s.rangeStart,
                rangeEnd |-> IF isStart THEN s.rangeEnd ELSE Plus(s.rangeStart, minWidth),
                updated |-> TRUE]
          [] event.key = "End" ->
               [rangeStart |-> IF isStart THEN Minus(s.rangeEnd, minWidth) ELSE s.rangeStart,
                rangeEnd |-> IF isStart THEN s.rangeEnd ELSE Q(100, 1),
                updated |-> TRUE]
          [] OTHER ->
               [rangeStart |-> s.rangeStart, rangeEnd |-> s.rangeEnd, updated |-> FALSE]

\* the range after handleKeydown(event, type) and the value of `updated`
handleKeydown(s, minWidth, event, type) ==
    LET step == IF event.shiftKey THEN Q(10, 1) ELSE Q(1, 1)
        isStart == type = "start"
    IN  CASE event.key = "ArrowLeft" ->
               [rangeStart |-> IF isStart THEN MathMax(Q(0, 1), Minus(s.rangeStart, step))
                               ELSE s.rangeStart,
                rangeEnd |-> IF isStart THEN s.rangeEnd
                             ELSE MathMax(Plus(s.rangeStart, minWidth),
                                          Minus(s.rangeEnd, step)),
                updated |-> TRUE]
          [] event.key = "ArrowRight" ->
               [rangeStart |-> IF isStart
                               THEN MathMin(Minus(s.rangeEnd, minWidth),
                                            Plus(s.rangeStart, step))
                               ELSE s.rangeStart,
                rangeEnd |-> IF isStart THEN s.rangeEnd
                             ELSE MathMin(Q(100, 1), Plus(s.rangeEnd, step)),
                updated |-> TRUE]
          [] event.key = "Home" ->
               [rangeStart |-> IF isStart THEN Q(0, 1) ELSE s.rangeStart,
                rangeEnd |-> IF isStart THEN s.rangeEnd ELSE Plus(s.rangeStart, minWidth),
                updated |-> TRUE]
          [] event.key = "End" ->
               [rangeStart |-> IF isStart THEN Minus(s.rangeEnd, minWidth) ELSE s.rangeStart,
                rangeEnd |-> IF isStart THEN s.rangeEnd ELSE Q(100, 1),
                updated |-> TRUE]
          [] OTHER ->
               [rangeStart |-> s.rangeStart, rangeEnd |-> s.rangeEnd, updated |-> FALSE]

(* ------------------------ inputs of the function calls ---------------- *)

NumericArrays ==
    LET elements ==
            {Number(Q(1, 1)), Number(Q(0, 1)), Number(Q(-5, 2)), Number(NaN),
             Number(Inf(1)), Number(Inf(-1)), Str("2"), Null, Undefined, Bool(TRUE)}
    IN  {Arr(s) : s \in SeqsUpTo(elements, MaxValues)}

ScaleNumbers ==
    UNION {{Q(n, 1), Q(n, 4), Q(25 * n, 1)} : n \in -MaxScaleValue..MaxScaleValue}

Areas ==
    {[x |-> Q(40, 1), y |-> Q(20, 1), width |-> Q(120, 1), height |-> Q(60, 1)],
     [x |-> Q(0, 1), y |-> Q(0, 1), width |-> Q(50, 1), height |-> Q(25, 1)]}

ScaleConfigs == {Undefined, Obj(EmptyRec), Obj([y |-> Obj([beginAtZero |-> Bool(FALSE)])])}

\* visible datasets of one or two labels with small integer values
ScaleDatasets ==
    {Arr([i \in 1..Len(ds) |-> Obj([data |-> Arr([j \in 1..Len(ds[i]) |-> Num(ds[i][j])])])]) :
        ds \in UNION {SeqsUpTo({<<v>> : v \in {-2, 0, 3}}, MaxValues),
                      SeqsUpTo({<<0, 0>>, <<3, 3>>, <<3, 0>>, <<0, -2>>}, MaxValues)}}

PieData == SeqsUpTo({Q(0, 1), Q(1, 1), Q(3, 1), Q(-1, 1)}, MaxValues + 1)

\* what a chart hands to useBarDimensions
BarConfigs ==
    [labelCount : 0..(MaxValues + 1), datasetCount : 0..(MaxValues + 1),
     gapRatio : {Q(0, 1), Q(1, 5), Q(1, 2), Q(1, 1)}, stacked : BOOLEAN]

TickLabels == {LabelSeq(n) : n \in 0..(MaxValues + 1)}

TickOptions ==
    {Undefined, Obj(EmptyRec), Obj([flush |-> Bool(TRUE)]),
     Obj([flush |-> Bool(FALSE)]), Obj([flush |-> Str("true")])}

\* scales.value of a line chart
LineScales ==
    {Undefined, Obj(EmptyRec), Obj([x |-> Obj(EmptyRec)])}
    \cup {Obj([x |-> o]) : o \in TickOptions \ {Undefined}}

\* one dataset as a caller may write it: every field present or left out,
\* also with an empty string, 0 or null in it
NormData ==
    LET datasetValues ==
            {Obj([k \in {"data"} \cup keys |->
                    CASE k = "data" -> Arr(<<Num(1)>>)
                      [] k = "label" -> label
                      [] k = "backgroundColor" -> Str("#f00")
                      [] k = "borderWidth" -> borderWidth]) :
                keys \in SUBSET {"label", "backgroundColor", "borderWidth"},
                label \in {Str("Sales"), Str("")},
                borderWidth \in {Num(0), Null}}
    IN  {Obj([labels |-> Arr(LabelSeq(1)), datasets |-> Arr(ds)]) :
            ds \in SeqsUpTo(datasetValues, 2)}

\* chart data whose datasets differ from one another
ClickData ==
    {Obj([labels |-> Arr(LabelSeq(2)),
          datasets |-> Arr([i \in 1..n |->
                               Obj([data |-> Arr(<<Num(10 * i), Num(10 * i + 1)>>)])])]) :
        n \in 2..3}

(* --------------------------------- state ------------------------------ *)

VARIABLES
    data,              \* props.data
    options,           \* props.options
    disabledDatasets,  \* useDatasetVisibility: disabledDatasets.value
    calls,             \* the latest consecutive toggleDataset calls (at most 2)
    validated,         \* the value validateChartData returned, once called
    rendered,          \* the template groups rendered, once rendered
    rect,              \* the container's bounding rect
    width,             \* useChartResize: width.value
    height,            \* useChartResize: height.value
    phase,             \* component lifecycle: "setup", "mounted", "unmounted"
    containerRef,      \* containerRef.value is an element (TRUE) or null
    hasRO,             \* typeof ResizeObserver !== 'undefined'
    hasCallback,       \* a callback was passed to useChartResize
    callbackArg,       \* the argument of the latest callback call
    resizeObserver,    \* "null", "observing" or "disconnected"
    listening,         \* window 'resize' listener registered
    rafId,             \* the latest requestAnimationFrame id, 0 for null
    nextFrameId,       \* the id the next requestAnimationFrame returns
    pendingFrames,     \* ids of the requested frames not yet run or cancelled
    timers,            \* pending timeouts: [id, remaining ms]
    timeout,           \* debounce: the latest setTimeout id, 0 for undefined
    nextTimerId,       \* the id the next setTimeout returns
    notifyPending,     \* a resize notification is queued for delivery
    resizes,           \* resize events so far
    directCalls,       \* updateDimensions calls made by the composable's user
    sinceNotify,       \* ms since the latest notification, up to Wait
    callsSinceNotify,  \* debounced updateDimensions calls since then
    burst,             \* notifications of the current burst, 0 before any
    fn,                \* the function being called, "idle" between calls
    arg,               \* the arguments of the call
    result,            \* what the call returned or emitted
    selector,          \* useRangeSelector: the options it was created with
    rangeStart,        \* useRangeSelector: rangeStart.value
    rangeEnd,          \* useRangeSelector: rangeEnd.value
    isDragging,        \* useRangeSelector: isDragging.value
    dragType,          \* "start", "end" or "null"
    dragStartX,        \* dragStartX.value
    dragStartValue,    \* dragStartValue.value
    dragContainerRect, \* the cached bounding rect, or Null
    inThrottle,        \* throttle: inThrottle, a timeout is pending while TRUE
    delivered,         \* the range onChange was last called with
    op,                \* the range selector's handler that ran last
    events,            \* range selector events so far
    legendDisabled,    \* ChartLegend: disabledDatasets.value
    legendEvent        \* the latest legend-toggle event emitted

visVars == <<data, options, disabledDatasets, calls>>

valVars == <<validated, rendered>>

dimVars == <<rect, width, height>>

rszVars == <<phase, containerRef, hasRO, hasCallback, callbackArg,
             resizeObserver, listening, rafId, nextFrameId, pendingFrames,
             timers, timeout, nextTimerId, notifyPending, resizes,
             directCalls, sinceNotify, callsSinceNotify, burst>>

calcVars == <<fn, arg, result>>

selVars == <<selector, rangeStart, rangeEnd, isDragging, dragType, dragStartX,
             dragStartValue, dragContainerRect, inThrottle, delivered, op, events>>

lgdVars == <<legendDisabled, legendEvent>>

vars == <<visVars, valVars, dimVars, rszVars, calcVars, selVars, lgdVars>>

normalised == normalisedDatasets(data, options)

visible_normaliseAfterFilter ==
    normalisedDatasets(
        Obj([datasets |-> visibleDatasets(Get(data, "datasets"), disabledDatasets)]),
        options)

visible == visibleDatasets(normalised, disabledDatasets)

Unset == [t |-> "unset"]

\* BaseChart: v-if="showLegend && normalisedDatasets.length > 0"
legendShown ==
    /\ OptGet(OptGet(OptGet(options, "plugins"), "legend"), "display") # Bool(FALSE)
    /\ Len(normalised.a) > 0

\* BaseChart: config.value.plugins?.legend?.interactive !== false
legendInteractive ==
    OptGet(OptGet(OptGet(options, "plugins"), "legend"), "interactive") # Bool(FALSE)

\* the state after useRangeSelector(options) has run and before the legend
\* is first rendered
InitWidgets(o) ==
    /\ selector = o
    /\ rangeStart = o.initialStart
    /\ rangeEnd = o.initialEnd
    /\ isDragging = FALSE
    /\ dragType = "null"
    /\ dragStartX = 0
    /\ dragStartValue = Q(0, 1)
    /\ dragContainerRect = Null
    /\ inThrottle = FALSE
    /\ delivered = Unset
    /\ op = "setup"
    /\ events = 0
    /\ legendDisabled = {}
    /\ legendEvent = Unset

\* useRangeSelector's defaults, without an onChange callback
DefaultSelector ==
    [initialStart |-> Q(0, 1), initialEnd |-> Q(100, 1), minWidth |-> Q(5, 1),
     onChange |-> FALSE]

\* the state after useChartResize(containerRef, callback) has run in setup
InitResizeVars ==
    /\ rect \in Rects
    /\ width = 0
    /\ height = 0
    /\ phase = "setup"
    /\ containerRef = FALSE
    /\ callbackArg = Unset
    /\ resizeObserver = "null"
    /\ listening = FALSE
    /\ rafId = 0
    /\ nextFrameId = 1
    /\ pendingFrames = {}
    /\ timers = {}
    /\ timeout = 0
    /\ nextTimerId = 1
    /\ notifyPending = FALSE
    /\ resizes = 0
    /\ directCalls = 0
    /\ sinceNotify = 0
    /\ callsSinceNotify = 0
    /\ burst = 0

InitCommon ==
    /\ options \in OptionValues
    /\ disabledDatasets = InitDisabled
    /\ calls = <<>>
    /\ validated = Unset
    /\ rendered = {}
    /\ hasRO = TRUE
    /\ hasCallback = FALSE
    /\ InitResizeVars
    /\ fn = "idle"
    /\ arg = Unset
    /\ result = Unset
    /\ InitWidgets(DefaultSelector)

(* ---------------------- dataset visibility: actions ------------------- *)

InitVis ==
    /\ data \in VisData
    /\ InitCommon

\* the record kept of one toggleDataset call
CallRecord(index, r) ==
    [index |-> index, ret |-> r.ret, before |-> disabledDatasets,
     visBefore |-> visible]

KeepLast(s) == IF Len(s) > 2 THEN Tail(s) ELSE s

\* a ChartLegend rendered anew starts with an empty disabled set; one that
\* stays rendered keeps its own (an empty set is the same either way)
LegendRerender ==
    legendDisabled' = IF legendDisabled # {} /\ legendShown /\ legendShown'
                      THEN legendDisabled
                      ELSE {}

\* the caller replaces props.data
SetData(d) ==
    /\ d # data
    /\ data' = d
    /\ calls' = <<>>
    /\ options' = options
    /\ LegendRerender
    /\ UNCHANGED <<calcVars, selVars, legendEvent, disabledDatasets, valVars,
                   dimVars, rszVars>>

\* the caller replaces props.options
SetOptions(o) ==
    /\ o # options
    /\ options' = o
    /\ calls' = <<>>
    /\ data' = data
    /\ LegendRerender
    /\ UNCHANGED <<calcVars, selVars, legendEvent, disabledDatasets, valVars,
                   dimVars, rszVars>>

ToggleDataset(index) ==
    LET r == toggleDataset(disabledDatasets, index)
    IN  /\ disabledDatasets' = r.disabled
        /\ calls' = KeepLast(Append(calls, CallRecord(index, r)))
        /\ UNCHANGED <<calcVars, selVars, lgdVars, data, options, valVars,
                       dimVars, rszVars>>

\* BarChart handleLegendToggle: the legend has one item per normalised dataset
HandleLegendToggle(index) ==
    LET r == handleLegendToggle(disabledDatasets, [index |-> index])
    IN  /\ index < Len(normalised.a)
        /\ disabledDatasets' = r.disabled
        /\ calls' = KeepLast(Append(calls, CallRecord(index, r)))
        /\ UNCHANGED <<calcVars, selVars, lgdVars, data, options, valVars,
                       dimVars, rszVars>>

ShowAllDatasets ==
    /\ disabledDatasets' = showAllDatasets(disabledDatasets)
    /\ calls' = <<>>
    /\ UNCHANGED <<calcVars, selVars, lgdVars, data, options, valVars, dimVars,
                   rszVars>>

HideAllDatasets ==
    /\ disabledDatasets' = hideAllDatasets(normalised, disabledDatasets)
    /\ calls' = <<>>
    /\ UNCHANGED <<calcVars, selVars, lgdVars, data, options, valVars, dimVars,
                   rszVars>>

\* the container is resized and an animation-frame callback publishes the new
\* size; when the callback runs is the subject of SpecResize
Resize(r) ==
    /\ r # rect
    /\ rect' = r
    /\ width' = Floor(r.width)
    /\ height' = Floor(r.height)
    /\ calls' = <<>>
    /\ UNCHANGED <<calcVars, selVars, lgdVars, data, options, disabledDatasets,
                   valVars, rszVars>>

ToggleStep ==
    \/ \E i \in 0..(MaxDatasets - 1) : ToggleDataset(i)
    \/ \E i \in 0..(MaxDatasets - 1) : HandleLegendToggle(i)

NextVis ==
    \/ \E d \in VisData : SetData(d)
    \/ \E o \in OptionValues : SetOptions(o)
    \/ \E i \in 0..(MaxDatasets - 1) : ToggleDataset(i)
    \/ \E i \in 0..(MaxDatasets - 1) : HandleLegendToggle(i)
    \/ ShowAllDatasets
    \/ HideAllDatasets
    \/ \E r \in Rects : Resize(r)

SpecVis == InitVis /\ [][NextVis]_vars

(* ----------------------- validation and rendering --------------------- *)

InitValidate ==
    /\ data \in DataUniverse
    /\ InitCommon

Validate ==
    /\ validated = Unset
    /\ validated' = validateChartData(data)
    /\ UNCHANGED <<calcVars, selVars, lgdVars, visVars, rendered, dimVars,
                   rszVars>>

\* the template reads isEmpty, and isValid only when isEmpty is false
Render ==
    /\ rendered = {}
    /\ rendered' = renderTemplate(isEmpty(data), Truthy(isValid(data)))
    /\ UNCHANGED <<calcVars, selVars, lgdVars, visVars, validated, dimVars,
                   rszVars>>

NextValidate == Validate \/ Render

SpecValidate == InitValidate /\ [][NextValidate]_vars

(* ----------------------------- resize: actions ----------------------- *)

InitResize ==
    /\ data = Obj([labels |-> Arr(<<>>), datasets |-> Arr(<<>>)])
    /\ options = Obj(EmptyRec)
    /\ disabledDatasets = InitDisabled
    /\ calls = <<>>
    /\ validated = Unset
    /\ rendered = {}
    /\ hasRO \in BOOLEAN
    /\ hasCallback \in BOOLEAN
    /\ InitResizeVars
    /\ fn = "idle"
    /\ arg = Unset
    /\ result = Unset
    /\ InitWidgets(DefaultSelector)

Frames == [rafId |-> rafId, pendingFrames |-> pendingFrames, nextFrameId |-> nextFrameId]

SetFrames(f) ==
    /\ rafId' = f.rafId
    /\ pendingFrames' = f.pendingFrames
    /\ nextFrameId' = f.nextFrameId

Min(a, b) == IF a < b THEN a ELSE b

\* onMounted: the template ref is set, updateDimensions() is called and the
\* container is observed (an observer reports the observed element once)
Mount ==
    /\ phase = "setup"
    /\ phase' = "mounted"
    /\ containerRef' = TRUE
    /\ SetFrames(updateDimensions(Frames))
    /\ IF hasRO
       THEN /\ resizeObserver' = "observing"
            /\ notifyPending' = TRUE
            /\ UNCHANGED listening
       ELSE /\ listening' = TRUE
            /\ UNCHANGED <<resizeObserver, notifyPending>>
    /\ UNCHANGED <<calcVars, selVars, lgdVars, visVars, valVars, dimVars, hasRO,
                   hasCallback, callbackArg, timers, timeout, nextTimerId,
                   resizes, directCalls, sinceNotify, callsSinceNotify, burst>>

\* onUnmounted; the template ref is reset to null
Unmount ==
    /\ phase = "mounted"
    /\ phase' = "unmounted"
    /\ containerRef' = FALSE
    /\ pendingFrames' = cancelFrame(pendingFrames, rafId)
    /\ IF resizeObserver # "null"
       THEN /\ resizeObserver' = "disconnected"
            /\ UNCHANGED listening
       ELSE /\ listening' = FALSE
            /\ UNCHANGED resizeObserver
    /\ notifyPending' = FALSE
    /\ UNCHANGED <<calcVars, selVars, lgdVars, visVars, valVars, dimVars, hasRO,
                   hasCallback, callbackArg, rafId, nextFrameId, timers,
                   timeout, nextTimerId, resizes, directCalls, sinceNotify,
                   callsSinceNotify, burst>>

\* the container gets a new size; the observer (or the window) queues a
\* notification
ResizeEvent(r) ==
    /\ phase = "mounted"
    /\ resizes < MaxResizes
    /\ r # rect
    /\ rect' = r
    /\ resizes' = resizes + 1
    /\ notifyPending' = (resizeObserver = "observing" \/ listening)
    /\ UNCHANGED <<calcVars, selVars, lgdVars, visVars, valVars, width, height,
                   phase, containerRef, hasRO, hasCallback, callbackArg,
                   resizeObserver, listening, rafId, nextFrameId, pendingFrames,
                   timers, timeout, nextTimerId, directCalls, sinceNotify,
                   callsSinceNotify, burst>>

\* the notification is delivered: debouncedUpdate()
Notify ==
    LET d == executedFunction([timers |-> timers, timeout |-> timeout,
                               nextTimerId |-> nextTimerId])
        \* the observer's callback tests entry.target === containerRef.value
        run == hasRO => containerRef
    IN  /\ notifyPending
        /\ notifyPending' = FALSE
        /\ timers' = IF run THEN d.timers ELSE timers
        /\ timeout' = IF run THEN d.timeout ELSE timeout
        /\ nextTimerId' = IF run THEN d.nextTimerId ELSE nextTimerId
        /\ burst' = IF burst >= 1 /\ sinceNotify < Wait
                    THEN Min(burst + 1, 2) ELSE 1
        /\ sinceNotify' = 0
        /\ callsSinceNotify' = 0
        /\ UNCHANGED <<calcVars, selVars, lgdVars, visVars, valVars, dimVars,
                       phase, containerRef, hasRO, hasCallback, callbackArg,
                       resizeObserver, listening, rafId, nextFrameId,
                       pendingFrames, resizes, directCalls>>

\* one millisecond passes
Tick ==
    /\ timers' = {[id |-> tm.id,
                   remaining |-> IF tm.remaining > 0 THEN tm.remaining - 1 ELSE 0] :
                  tm \in timers}
    /\ sinceNotify' = IF burst = 0 THEN 0 ELSE Min(sinceNotify + 1, Wait)
    /\ UNCHANGED <<calcVars, selVars, lgdVars, visVars, valVars, dimVars, phase,
                   containerRef, hasRO, hasCallback, callbackArg,
                   resizeObserver, listening, rafId, nextFrameId, pendingFrames,
                   timeout, nextTimerId, notifyPending, resizes, directCalls,
                   callsSinceNotify, burst>>

\* a due timeout runs debounce's later: clearTimeout(timeout); func()
TimerFire(tm) ==
    /\ tm \in timers
    /\ tm.remaining = 0
    /\ timers' = later(timers, tm, timeout)
    /\ SetFrames(updateDimensions(Frames))
    /\ callsSinceNotify' = Min(callsSinceNotify + 1, 2)
    /\ UNCHANGED <<calcVars, selVars, lgdVars, visVars, valVars, dimVars, phase,
                   containerRef, hasRO, hasCallback, callbackArg,
                   resizeObserver, listening, timeout, nextTimerId,
                   notifyPending, resizes, directCalls, sinceNotify, burst>>

\* the browser runs a requested animation frame
FrameFire(id) ==
    LET out == frameCallback(containerRef, rect, hasCallback,
                             [width |-> width, height |-> height,
                              callbackArg |-> callbackArg])
    IN  /\ id \in pendingFrames
        /\ pendingFrames' = pendingFrames \ {id}
        /\ width' = out.width
        /\ height' = out.height
        /\ callbackArg' = out.callbackArg
        /\ UNCHANGED <<calcVars, selVars, lgdVars, visVars, valVars, rect,
                       phase, containerRef, hasRO, hasCallback, resizeObserver,
                       listening, rafId, nextFrameId, timers, timeout,
                       nextTimerId, notifyPending, resizes, directCalls,
                       sinceNotify, callsSinceNotify, burst>>

\* the composable's user calls the returned updateDimensions
UpdateDimensionsCall ==
    /\ directCalls < MaxDirectCalls
    /\ directCalls' = directCalls + 1
    /\ SetFrames(updateDimensions(Frames))
    /\ UNCHANGED <<calcVars, selVars, lgdVars, visVars, valVars, dimVars, phase,
                   containerRef, hasRO, hasCallback, callbackArg,
                   resizeObserver, listening, timers, timeout, nextTimerId,
                   notifyPending, resizes, sinceNotify, callsSinceNotify,
                   burst>>

FrameStep == \E id \in pendingFrames : FrameFire(id)

TimerStep == \E tm \in timers : TimerFire(tm)

NextResize ==
    \/ Mount
    \/ Unmount
    \/ \E r \in Rects : ResizeEvent(r)
    \/ Notify
    \/ Tick
    \/ \E tm \in timers : TimerFire(tm)
    \/ \E id \in pendingFrames : FrameFire(id)
    \/ UpdateDimensionsCall

SpecResize == InitResize /\ [][NextResize]_vars

\* the event loop runs every queued notification, due timer and requested
\* frame, and time passes
SpecResizeLive ==
    /\ SpecResize
    /\ WF_vars(Notify)
    /\ WF_vars(Tick)
    /\ WF_vars(TimerStep)
    /\ WF_vars(FrameStep)

(* ------------------------- claims: dataset visibility ----------------- *)

LastCall == calls[Len(calls)]

\* C1: two toggleDataset(i) calls in a row restore the disabled-index set and
\* visibleDatasets to what they were before the two calls, and the first call
\* returns the negation of what the second call returns.
C1_ToggleTwiceRestores ==
    (Len(calls) = 2 /\ calls[1].index = calls[2].index) =>
        /\ disabledDatasets = calls[1].before
        /\ visible = calls[1].visBefore
        /\ calls[1].ret = ~calls[2].ret

C1_Witness ==
    /\ Len(calls) = 2
    /\ calls[1].index = calls[2].index
    /\ calls[1].ret = FALSE
    /\ calls[1].before = {0, 1}
    /\ Len(normalised.a) = 2

\* the indices of the normalised list that are not disabled
KeptIndices == {i \in 0..(Len(normalised.a) - 1) : i \notin disabledDatasets}

\* C2: visibleDatasets is the normalised dataset list without the datasets at
\* disabled indices, the remaining datasets in their original relative order.
C2_VisibleIsFilteredInOrder ==
    /\ Len(visible.a) = Cardinality(KeptIndices)
    /\ \E f \in [1..Len(visible.a) -> KeptIndices] :
          /\ \A j, k \in 1..Len(visible.a) : j < k => f[j] < f[k]
          /\ \A k \in 1..Len(visible.a) : visible.a[k] = normalised.a[f[k] + 1]

C2_Witness ==
    /\ Len(normalised.a) = 2
    /\ disabledDatasets = {0}
    /\ Len(visible.a) = 1
    /\ Get(visible.a[1], "label") = Str("Dataset 2")

\* C3: a toggleDataset(i) call with i an index of the dataset list that
\* returns true leaves visibleDatasets exactly one element shorter.
C3_DisableShortensByOne ==
    (calls # <<>> /\ LastCall.ret /\ LastCall.index < Len(normalised.a)) =>
        Len(visible.a) = Len(LastCall.visBefore.a) - 1

C3_Witness ==
    /\ calls # <<>>
    /\ LastCall.ret
    /\ LastCall.index = 1
    /\ Len(normalised.a) = 2
    /\ Len(visible.a) = 1

\* C4: the disabled-index set starts empty, no data update, options change or
\* resize changes it, and every step that changes it is a toggleDataset /
\* handleLegendToggle, showAllDatasets or hideAllDatasets call.
C4_DisabledSetFrame ==
    /\ disabledDatasets = {}
    /\ [][/\ (data' # data \/ options' # options \/ rect' # rect
                \/ width' # width \/ height' # height)
              => disabledDatasets' = disabledDatasets
          /\ disabledDatasets' # disabledDatasets
              => (ToggleStep \/ ShowAllDatasets \/ HideAllDatasets)]_vars

\* a data update that shrank the dataset list below a disabled index
C4_Witness ==
    /\ disabledDatasets = {1}
    /\ Len(normalised.a) = 1
    /\ width > 0

\* the values of the datasets that are not disabled
VisibleValues ==
    UNION {{Get(normalised.a[i + 1], "data").a[j].n :
                j \in 1..Len(Get(normalised.a[i + 1], "data").a)} :
           i \in KeptIndices}

\* the chart content (axes and bars) is rendered, with a dataset to draw
ContentShown ==
    /\ ~isEmpty(data)
    /\ Truthy(isValid(data))
    /\ KeptIndices # {}

\* C5: the Y-scale data range of BarChart / LineChart is the minimum and the
\* maximum over the values of the visible datasets only.
C5_RangeOfVisibleOnly ==
    ContentShown =>
        /\ dataRange(normalised, visible).min \in VisibleValues
        /\ dataRange(normalised, visible).max \in VisibleValues
        /\ \A v \in VisibleValues :
              /\ dataRange(normalised, visible).min <= v
              /\ v <= dataRange(normalised, visible).max

\* the hidden dataset holds the largest value, and the range no longer has it
C5_Witness ==
    /\ ContentShown
    /\ disabledDatasets # {}
    /\ getDataRange(normalised).max = 3
    /\ dataRange(normalised, visible).max = -2

(* ---------------------- claims: validation and rendering -------------- *)

IsObject(v) == v.t \in {"object", "array"}

\* the structure the validator is documented to accept
WellFormed(d) ==
    /\ IsObject(d)
    /\ d.t = "object"
    /\ "labels" \in DOMAIN d.f
    /\ "datasets" \in DOMAIN d.f
    /\ d.f.labels.t = "array"
    /\ d.f.datasets.t = "array"
    /\ Len(d.f.datasets.a) > 0
    /\ \A i \in 1..Len(d.f.datasets.a) :
          LET ds == d.f.datasets.a[i]
          IN  /\ ds.t = "object"
              /\ "data" \in DOMAIN ds.f
              /\ ds.f.data.t = "array"
              /\ Len(ds.f.data.a) = Len(d.f.labels.a)

\* C10: validateChartData returns true exactly for an object whose labels is
\* an array and whose datasets is a non-empty array of objects with a data
\* array as long as labels; it returns false, and never throws, otherwise.
C10_ValidateIff ==
    validated # Unset => validated = Bool(WellFormed(data))

C10_Witness ==
    /\ validated = Bool(TRUE)
    /\ Len(Get(data, "datasets").a) = 2
    /\ Len(Get(data, "labels").a) = 1

(* ------------------------------ claims: resize ------------------------ *)

\* C6: at most one animation-frame callback of updateDimensions is pending,
\* and it is the one of the latest request: every earlier request was
\* cancelled or has run.
C6_OnePendingFrame ==
    /\ Cardinality(pendingFrames) <= 1
    /\ pendingFrames \subseteq {rafId}

\* the frame requested on mount was cancelled by the debounced request
C6_Witness ==
    /\ phase = "mounted"
    /\ directCalls = 0
    /\ rafId = 2
    /\ pendingFrames = {2}
    /\ width = 0

\* C7: a frame callback that runs with the container present publishes the
\* floor of the container's size at that moment, and passes it to the callback.
C7_FramePublishesCurrentSize ==
    [][(FrameStep /\ containerRef) =>
          /\ width' * SubPx <= rect'.width
          /\ rect'.width < (width' + 1) * SubPx
          /\ height' * SubPx <= rect'.height
          /\ rect'.height < (height' + 1) * SubPx
          /\ hasCallback => callbackArg' = [width |-> width', height |-> height']
      ]_vars

\* the size published is that of a resize whose notification is still queued
C7_Witness ==
    /\ notifyPending
    /\ resizes >= 1
    /\ directCalls = 0
    /\ callsSinceNotify = 1
    /\ hasCallback
    /\ width * SubPx <= rect.width
    /\ rect.width < (width + 1) * SubPx
    /\ height * SubPx <= rect.height
    /\ rect.height < (height + 1) * SubPx
    /\ callbackArg = [width |-> width, height |-> height]

Published ==
    /\ width * SubPx <= rect.width
    /\ rect.width < (width + 1) * SubPx
    /\ height * SubPx <= rect.height
    /\ rect.height < (height + 1) * SubPx

\* C8: within a burst (each notification less than Wait ms after the previous
\* one) no debounced updateDimensions call is made; after the last
\* notification exactly one is made, Wait ms or more after it; and once
\* notifications stop the published size becomes the container's floored size.
C8_Debounced ==
    /\ [](callsSinceNotify <= 1)
    /\ [](callsSinceNotify >= 1 => sinceNotify = Wait)
    /\ [][(Notify /\ burst >= 1 /\ sinceNotify < Wait) => callsSinceNotify = 0]_vars
    /\ <>[](phase = "mounted" =>
               /\ burst >= 1 => callsSinceNotify = 1
               /\ Published)

\* a burst of two notifications was followed by one call, now published
C8_Witness ==
    /\ phase = "mounted"
    /\ burst = 2
    /\ resizes >= 1
    /\ callsSinceNotify = 1
    /\ pendingFrames = {}
    /\ Published

(* ----------------------------- function calls ------------------------- *)

InitCalc ==
    /\ data = Obj(EmptyRec)
    /\ InitCommon
    /\ options = Obj(EmptyRec)
    /\ rect = [width |-> 5, height |-> 3]

\* f(a) is called and returns r
Call(f, a, r) ==
    /\ fn = "idle"
    /\ fn' = f
    /\ arg' = a
    /\ result' = r
    /\ UNCHANGED <<selVars, lgdVars, visVars, valVars, dimVars, rszVars>>

\* the caller is done with the value
Return ==
    /\ fn # "idle"
    /\ fn' = "idle"
    /\ arg' = Unset
    /\ result' = Unset
    /\ UNCHANGED <<selVars, lgdVars, visVars, valVars, dimVars, rszVars>>

CallValidateNumericData ==
    \E values \in NumericArrays :
        Call("validateNumericData", values, validateNumericData(values))

CallCalculateNiceScale ==
    \E min \in ScaleNumbers, max \in ScaleNumbers, ticks \in {Q(t, 1) : t \in {1, 2, 3, 5, 6}} :
        /\ Leq(min, max)
        /\ Call("calculateNiceScale", [min |-> min, max |-> max, ticks |-> ticks],
                calculateNiceScale(min, max, ticks))

\* one chart's scale engine: yScale, the Y ticks and the two conversions
CallScaleEngine ==
    \E datasets \in ScaleDatasets, chartArea \in {Obj(EmptyRec), Obj([stacked |-> Bool(TRUE)])},
       scaleConfig \in ScaleConfigs, area \in Areas, value \in {Q(0, 1), Q(3, 1)} :
        LET scale == yScale(datasets, chartArea, scaleConfig)
        IN  Call("useChartScale",
                 [datasets |-> datasets, chartArea |-> chartArea,
                  scaleConfig |-> scaleConfig, area |-> area, value |-> value],
                 [yScale |-> scale,
                  ticks |-> generateYAxisTicks(scale, area),
                  y |-> valueToY(scale, value, area),
                  height |-> valueToHeight(scale, value, area)])

CallCalculatePieSlices ==
    \E values \in PieData :
        Call("calculatePieSlices", values, calculatePieSlices(values))

\* every bar of the chart: its width and its x, one index past the last
\* dataset included
CallBarDimensions ==
    \E c \in BarConfigs, chartArea \in Areas :
        Call("useBarDimensions", [c |-> c, chartArea |-> chartArea],
             [barWidth |-> getBarWidth(c, chartArea),
              x |-> [labelIndex \in 0..(c.labelCount - 1) |->
                        [datasetIndex \in 0..c.datasetCount |->
                            getBarX(c, labelIndex, datasetIndex, chartArea)]]])

CallInlineBarDimensions ==
    \E c \in BarConfigs, chartArea \in Areas :
        /\ c.gapRatio = Q(1, 5)
        /\ ~c.stacked
        /\ Call("inlineBarDimensions", [c |-> c, chartArea |-> chartArea],
                [barWidth |-> inlineGetBarWidth(c, chartArea),
                 x |-> [labelIndex \in 0..(c.labelCount - 1) |->
                           [datasetIndex \in 0..c.datasetCount |->
                               inlineGetBarX(c, labelIndex, datasetIndex, chartArea)]]])

\* StackedChart renders its segments; labels.value has one label per value
CallStackedBars ==
    \E datasets \in ScaleDatasets, labelCount \in 0..2,
       scales \in ScaleConfigs, chartArea \in Areas :
        /\ \A i \in 1..Len(datasets.a) : Len(Get(datasets.a[i], "data").a) = labelCount
        /\ Call("getStackedBarsForRender",
                [visibleDatasets |-> datasets, labelCount |-> labelCount,
                 scales |-> scales, chartArea |-> chartArea],
                getStackedBarsForRender(datasets, labelCount, scales, chartArea))

CallGenerateXAxisTicks ==
    \E area \in Areas, tickLabels \in TickLabels, tickOptions \in TickOptions :
        Call("generateXAxisTicks",
             [area |-> area, labels |-> tickLabels, options |-> tickOptions],
             generateXAxisTicks(area, tickLabels, tickOptions))

\* LineChart draws its X axis and places the points of a dataset
CallLineChartX ==
    \E scales \in LineScales, chartLabels \in TickLabels, chartArea \in Areas :
        Call("LineChart",
             [scales |-> scales, labels |-> chartLabels, chartArea |-> chartArea],
             [ticks |-> getXAxisTicks(scales, chartLabels, chartArea),
              points |-> [i \in 1..Len(chartLabels) |->
                            getXPosition(scales, chartLabels, i - 1, chartArea)]])

\* useChartData(data, options): normalisedDatasets is read; the caller's data
\* as it is after the read is kept with the result
CallNormalisedDatasets ==
    \E d \in NormData, o \in {Obj(EmptyRec), Obj([colors |-> Arr(<<"#111", "#222">>)])} :
        Call("normalisedDatasets", [data |-> d, options |-> o],
             [normalisedDatasets |-> normalisedDatasets(d, o), data |-> d])

\* StackedChart: the pointer enters the segment drawn at position `position`
\* of the label's group and clicks it; the template passes the v-for index of
\* the group to both handlers. getStackedBarsForRender maps stackedBars bar
\* by bar (the rectangle is added to a copy of the bar), so a rendered group
\* holds the bars of stackedBars in their order. The visible datasets carry
\* the label and the colour normalisation gave them.
CallStackedBarEvents ==
    /\ fn = "idle"
    /\ \E datasets \in ScaleDatasets, labelIndex \in 0..1, position \in 0..MaxValues,
          isInteractive \in BOOLEAN :
        LET datasetLabels == <<"Dataset 1", "Dataset 2", "Dataset 3", "Dataset 4">>
            labelNames == <<"Jan", "Feb">>
            visibleSets ==
                Arr([i \in 1..Len(datasets.a) |->
                        Obj([data |-> Get(datasets.a[i], "data"),
                             label |-> Str(datasetLabels[i]),
                             backgroundColor |-> Str(getColorByIndex(i - 1, DEFAULT_COLORS))])])
            labelCount == IF Len(datasets.a) = 0 THEN 0
                          ELSE Len(Get(datasets.a[1], "data").a)
            chartLabels == Arr([l \in 1..labelCount |-> Str(labelNames[l])])
            groups == stackedBars(visibleSets, labelCount)
            bar == groups[labelIndex + 1][position + 1]
            event == [clientX |-> 5, clientY |-> 20]
        IN  /\ labelIndex < labelCount
            /\ position < Len(groups[labelIndex + 1])
            /\ Call("StackedChart-bar",
                    [visibleDatasets |-> visibleSets, labels |-> chartLabels,
                     labelIndex |-> labelIndex, position |-> position, bar |-> bar,
                     isInteractive |-> isInteractive],
                    [tooltip |-> StackedChart_handleBarHover(
                                     [isInteractive |-> isInteractive,
                                      visibleDatasets |-> visibleSets,
                                      labels |-> chartLabels, tooltip |-> Unset],
                                     labelIndex, position, bar.value, event),
                     click |-> StackedChart_handleBarClick(
                                   chartLabels, labelIndex, position, bar.value)])

NextCalc ==
    \/ Return
    \/ CallValidateNumericData
    \/ CallCalculateNiceScale
    \/ CallScaleEngine
    \/ CallCalculatePieSlices
    \/ CallBarDimensions
    \/ CallInlineBarDimensions
    \/ CallStackedBars
    \/ CallStackedBarEvents
    \/ CallGenerateXAxisTicks
    \/ CallLineChartX
    \/ CallNormalisedDatasets

SpecCalc == InitCalc /\ [][NextCalc]_vars

(* --------------------------- BarChart: bar clicks --------------------- *)

InitClick ==
    /\ data \in ClickData
    /\ InitCommon

\* the user clicks the rect of value labelIndex in group datasetIndex; the
\* template's v-for runs over visibleDatasets, and drawn is the index in
\* data.datasets of the dataset drawn as that group
BarClick(labelIndex, datasetIndex) ==
    LET drawn == CHOOSE i \in KeptIndices :
                    Cardinality({j \in KeptIndices : j < i}) = datasetIndex
    IN
    /\ datasetIndex < Len(visible.a)
    /\ labelIndex < Len(Get(visible.a[datasetIndex + 1], "data").a)
    /\ fn' = "bar-click"
    /\ arg' = [labelIndex |-> labelIndex, dataset |-> drawn]
    /\ result' = handleBarClick(labels(data), labelIndex, datasetIndex,
                                Get(visible.a[datasetIndex + 1], "data").a[labelIndex + 1])
    /\ UNCHANGED <<selVars, lgdVars, visVars, valVars, dimVars, rszVars>>

NextClick ==
    \/ \E index \in 0..2 : HandleLegendToggle(index)
    \/ \E labelIndex \in 0..1, datasetIndex \in 0..2 : BarClick(labelIndex, datasetIndex)

SpecClick == InitClick /\ [][NextClick]_vars

(* ----------------------------- range selector ------------------------- *)

\* the options a range selector is created with: 0 <= initialStart,
\* initialEnd <= 100 and initialEnd - initialStart >= minWidth >= 0
InitRange ==
    /\ data = Obj(EmptyRec)
    /\ options = Obj(EmptyRec)
    /\ disabledDatasets = InitDisabled
    /\ calls = <<>>
    /\ validated = Unset
    /\ rendered = {}
    /\ hasRO = TRUE
    /\ hasCallback = FALSE
    /\ InitResizeVars
    /\ fn = "idle"
    /\ arg = Unset
    /\ result = Unset
    /\ \E o \in {[initialStart |-> Q(c[1], 1), initialEnd |-> Q(c[2], 1),
                  minWidth |-> Q(c[3], 1), onChange |-> c[4]] :
                 c \in {<<0, 100, 5, TRUE>>, <<20, 25, 5, FALSE>>,
                        <<93, 100, 5, TRUE>>, <<40, 60, 10, FALSE>>}} :
          InitWidgets(o)

RangeState ==
    [rangeStart |-> rangeStart, rangeEnd |-> rangeEnd, isDragging |-> isDragging,
     dragType |-> dragType, dragStartX |-> dragStartX,
     dragStartValue |-> dragStartValue, dragContainerRect |-> dragContainerRect]

\* emitChange(): the throttled onChange call, which reads the range as it is
\* after the handler's writes; null without an onChange option
EmitChange ==
    IF selector.onChange /\ ~inThrottle
    THEN /\ delivered' = [start |-> rangeStart', end |-> rangeEnd']
         /\ inThrottle' = TRUE
    ELSE UNCHANGED <<delivered, inThrottle>>

\* mousedown or touchstart on a handle; event.container is the element the
\* closest() look-up finds (its bounding rect), Null when it finds none
StartDrag(type, event) ==
    /\ events < MaxEvents
    /\ isDragging' = TRUE
    /\ dragType' = type
    /\ dragStartX' = event.clientX
    /\ dragStartValue' = IF type = "start" THEN rangeStart ELSE rangeEnd
    /\ dragContainerRect' = IF event.container # Null THEN event.container
                            ELSE dragContainerRect
    /\ op' = "startDrag"
    /\ events' = events + 1
    /\ UNCHANGED <<selector, rangeStart, rangeEnd, inThrottle, delivered, lgdVars,
                   calcVars, visVars, valVars, dimVars, rszVars>>

\* the pointer moves over the document; handleDrag is registered from
\* startDrag to stopDrag, which is while isDragging is true, and returns at
\* once otherwise
PointerMove(event) ==
    LET r == handleDrag(RangeState, selector.minWidth, event)
    IN  /\ events < MaxEvents
        /\ rangeStart' = r.rangeStart
        /\ rangeEnd' = r.rangeEnd
        /\ IF r.emit THEN EmitChange ELSE UNCHANGED <<delivered, inThrottle>>
        /\ op' = "pointermove"
        /\ events' = events + 1
        /\ UNCHANGED <<selector, isDragging, dragType, dragStartX, dragStartValue,
                       dragContainerRect, lgdVars, calcVars, visVars, valVars,
                       dimVars, rszVars>>

\* mouseup or touchend while the listeners are registered: stopDrag
PointerUp ==
    /\ events < MaxEvents
    /\ isDragging
    /\ isDragging' = FALSE
    /\ dragType' = "null"
    /\ dragContainerRect' = Null
    /\ op' = "stopDrag"
    /\ events' = events + 1
    /\ UNCHANGED <<selector, rangeStart, rangeEnd, dragStartX, dragStartValue,
                   inThrottle, delivered, lgdVars, calcVars, visVars, valVars,
                   dimVars, rszVars>>

\* a key is pressed on a handle
Keydown(event, type) ==
    LET r == handleKeydown(RangeState, selector.minWidth, event, type)
    IN  /\ events < MaxEvents
        /\ rangeStart' = r.rangeStart
        /\ rangeEnd' = r.rangeEnd
        /\ delivered' = IF r.updated /\ selector.onChange
                        THEN [start |-> r.rangeStart, end |-> r.rangeEnd]
                        ELSE delivered
        /\ op' = "keydown"
        /\ events' = events + 1
        /\ UNCHANGED <<selector, isDragging, dragType, dragStartX, dragStartValue,
                       dragContainerRect, inThrottle, lgdVars, calcVars, visVars,
                       valVars, dimVars, rszVars>>

ResetRange ==
    /\ events < MaxEvents
    /\ rangeStart' = selector.initialStart
    /\ rangeEnd' = selector.initialEnd
    /\ delivered' = IF selector.onChange
                    THEN [start |-> selector.initialStart, end |-> selector.initialEnd]
                    ELSE delivered
    /\ op' = "resetRange"
    /\ events' = events + 1
    /\ UNCHANGED <<selector, isDragging, dragType, dragStartX, dragStartValue,
                   dragContainerRect, inThrottle, lgdVars, calcVars, visVars,
                   valVars, dimVars, rszVars>>

\* throttle's timeout fires, 16 ms after the call that was let through; the
\* handlers before it are the events that fell into the window
ThrottleExpire ==
    /\ inThrottle
    /\ inThrottle' = FALSE
    /\ UNCHANGED <<selector, rangeStart, rangeEnd, isDragging, dragType,
                   dragStartX, dragStartValue, dragContainerRect, delivered, op,
                   events, lgdVars, calcVars, visVars, valVars, dimVars, rszVars>>

NextRange ==
    \/ \E type \in {"start", "end"}, container \in {Null, [width |-> 200]} :
          StartDrag(type, [clientX |-> 100, container |-> container])
    \/ \E clientX \in {100, 105, 40, 400} : PointerMove([clientX |-> clientX])
    \/ PointerUp
    \/ \E key \in {"ArrowLeft", "ArrowRight", "Home", "End", "Tab"},
          shiftKey \in BOOLEAN, type \in {"start", "end"} :
          Keydown([key |-> key, shiftKey |-> shiftKey], type)
    \/ ResetRange
    \/ ThrottleExpire

SpecRange == InitRange /\ [][NextRange]_vars

(* ------------------------------- legend ------------------------------- *)

InitLegend ==
    /\ data \in VisData
    /\ InitCommon

\* a click (or Enter) on legend item `index`: ChartLegend's toggleDataset,
\* BaseChart's handleLegendToggle, which re-emits the event, and BarChart's
\* handleLegendToggle
LegendClick(index) ==
    LET toggled == IF index \in legendDisabled THEN legendDisabled \ {index}
                   ELSE legendDisabled \cup {index}
        event == [index |-> index, disabled |-> index \in toggled]
        r == handleLegendToggle(disabledDatasets, event)
    IN  /\ legendShown
        /\ index < Len(normalised.a)
        /\ IF ~legendInteractive
           THEN UNCHANGED <<legendDisabled, legendEvent, disabledDatasets, calls>>
           ELSE /\ legendDisabled' = toggled
                /\ legendEvent' = event
                /\ disabledDatasets' = r.disabled
                /\ calls' = KeepLast(Append(calls, CallRecord(index, r)))
        /\ UNCHANGED <<calcVars, selVars, data, options, valVars, dimVars, rszVars>>

NextLegend ==
    \/ \E i \in 0..(MaxDatasets - 1) : LegendClick(i)
    \/ ShowAllDatasets
    \/ HideAllDatasets
    \/ \E d \in VisData : SetData(d)
    \/ \E o \in {Obj(EmptyRec),
                 Obj([plugins |-> Obj([legend |-> Obj([interactive |-> Bool(FALSE)])])])} :
          SetOptions(o)

SpecLegend == InitLegend /\ [][NextLegend]_vars

(* ------------------------------- C11 ---------------------------------- *)

IsFiniteNumber(v) == TypeOf(v) = "number" /\ IsFinite(v.n)

\* C11: validateNumericData(values) returns true if and only if every element
\* of values is a finite number; NaN, Infinity, -Infinity or a non-number
\* in the array yields false.
C11_TrueIffAllFinite ==
    fn = "validateNumericData" =>
        (result <=> \A i \in 1..Len(arg.a) : IsFiniteNumber(arg.a[i]))

(* ------------------------------- C12 ---------------------------------- *)

\* s is 1, 2, 5 or 10 times a power of ten
IsNiceStep(s) ==
    /\ IsFinite(s)
    /\ Less(Q(0, 1), s)
    /\ \E m \in {1, 2, 5, 10} :
          LET p == Over(s, Q(m, 1)) IN p = Pow10(FloorLog10(p))

\* C12: for all min <= max and every tick count t, calculateNiceScale(min, max, t)
\* returns scale.min <= min, scale.max >= max and a step that is 1, 2, 5 or 10
\* times a power of ten.
C12_NiceScaleCovers ==
    fn = "calculateNiceScale" =>
        /\ Leq(result.min, arg.min)
        /\ Leq(arg.max, result.max)
        /\ IsNiceStep(result.step)

(* ------------------------------- C13 ---------------------------------- *)

\* the data of the call has one value only: min == max
DegenerateRange(datasets, chartArea) ==
    LET range == scaleDataRange(datasets, chartArea)
    IN  range.min = range.max

\* C13: for a degenerate range (min == max, all-zero data included) the scale
\* has a finite non-zero step and finite min and max, and valueToY,
\* valueToHeight and every Y-tick position are finite numbers.
C13_DegenerateRangeUsable ==
    (fn = "useChartScale" /\ DegenerateRange(arg.datasets, arg.chartArea)) =>
        /\ IsFinite(result.yScale.step) /\ result.yScale.step # Q(0, 1)
        /\ IsFinite(result.yScale.min) /\ IsFinite(result.yScale.max)
        /\ IsFinite(result.y)
        /\ IsFinite(result.height)
        /\ result.ticks # Diverges
        /\ \A i \in 1..Len(result.ticks) : IsFinite(result.ticks[i])

(* ------------------------------- C14 ---------------------------------- *)

RECURSIVE SumOf(_)
SumOf(s) == IF s = <<>> THEN Q(0, 1) ELSE Plus(Head(s), SumOf(Tail(s)))

\* C14: for a data array with a positive total calculatePieSlices returns one
\* slice per value in input order, the first starting at -90, each starting
\* where the previous one ends, the last ending at 270, none with
\* endAngle < startAngle, and percentages summing to 100; for a total of 0
\* every percentage is 0 and every slice has zero width.
C14_SlicesPartitionCircle ==
    fn = "calculatePieSlices" =>
        LET n == Len(arg)
            total == SumOf(arg)
        IN  /\ Less(Q(0, 1), total) =>
                /\ Len(result) = n
                /\ \A i \in 1..n : result[i].value = arg[i]
                /\ result[1].startAngle = Q(-90, 1)
                /\ \A i \in 2..n : result[i].startAngle = result[i - 1].endAngle
                /\ result[n].endAngle = Q(270, 1)
                /\ \A i \in 1..n : Leq(result[i].startAngle, result[i].endAngle)
                /\ SumOf([i \in 1..n |-> result[i].percentage]) = Q(100, 1)
            /\ total = Q(0, 1) =>
                \A i \in 1..Len(result) :
                    /\ result[i].percentage = Q(0, 1)
                    /\ result[i].endAngle = result[i].startAngle

(* ------------------------------- C15 ---------------------------------- *)

\* C15: in grouped mode with datasetCount >= 1, for every label and every
\* visible dataset index d the bars of a group neither overlap nor leave the
\* group: x(d+1) = x(d) + barWidth, the first bar starts at
\* groupStart + (groupWidth - barWidth*datasetCount)/2 >= groupStart, the last
\* bar ends at or before groupStart + groupWidth, and
\* barWidth = groupWidth/datasetCount * (1 - gapRatio).
C15_GroupedBarsInsideGroup ==
    (fn \in {"useBarDimensions", "inlineBarDimensions"}
        /\ ~arg.c.stacked /\ arg.c.datasetCount >= 1) =>
        \A labelIndex \in 0..(arg.c.labelCount - 1) :
            LET count == arg.c.datasetCount
                groupWidth == Over(arg.chartArea.width, Q(arg.c.labelCount, 1))
                groupStart == Plus(arg.chartArea.x, Times(groupWidth, Q(labelIndex, 1)))
                barWidth == result.barWidth
                x == result.x[labelIndex]
            IN  /\ barWidth = Times(Over(groupWidth, Q(count, 1)),
                                    Minus(Q(1, 1), arg.c.gapRatio))
                /\ \A d \in 0..(count - 1) : x[d + 1] = Plus(x[d], barWidth)
                /\ x[0] = Plus(groupStart,
                               Over(Minus(groupWidth, Times(barWidth, Q(count, 1))),
                                    Q(2, 1)))
                /\ Leq(groupStart, x[0])
                /\ Leq(Plus(x[count - 1], barWidth), Plus(groupStart, groupWidth))

C15_Witness ==
    /\ fn = "useBarDimensions"
    /\ ~arg.c.stacked
    /\ arg.c.datasetCount = 3
    /\ arg.c.labelCount = 2
    /\ arg.c.gapRatio = Q(1, 5)
    /\ result.x[1][2] = Plus(result.x[1][1], result.barWidth)
    /\ Less(Q(0, 1), result.barWidth)

(* ------------------------------- C16 ---------------------------------- *)

\* the indices, in order, of the datasets whose value at label l is > 0
RECURSIVE PositiveIndices(_, _, _)
PositiveIndices(datasets, l, d) ==
    IF d >= Len(datasets.a) THEN <<>>
    ELSE (IF Get(datasets.a[d + 1], "data").a[l].n > 0 THEN <<d>> ELSE <<>>)
         \o PositiveIndices(datasets, l, d + 1)

\* C16: in a stacked chart the segments of a label are exactly the visible
\* datasets with value > 0, in dataset order, each at the cumulative offset of
\* the positive values before it; the bottom edge of the first segment is the
\* zero baseline and the bottom edge (y + height) of every later segment is
\* the top edge (y) of the segment below it.
C16_SegmentsStackWithoutGap ==
    fn = "getStackedBarsForRender" =>
        \A l \in 1..arg.labelCount :
            LET segs == result[l]
                idx == PositiveIndices(arg.visibleDatasets, l, 0)
                valueAt(k) == Get(arg.visibleDatasets.a[idx[k] + 1], "data").a[l].n
                scale == yScale(arg.visibleDatasets, Obj([stacked |-> Bool(TRUE)]),
                                arg.scales)
            IN  /\ Len(segs) = Len(idx)
                /\ \A k \in 1..Len(segs) :
                      /\ segs[k].datasetIndex = idx[k]
                      /\ segs[k].value = valueAt(k)
                      /\ segs[k].cumulativeValue =
                            (IF k = 1 THEN 0
                             ELSE segs[k - 1].cumulativeValue + valueAt(k - 1))
                      /\ Plus(segs[k].y, segs[k].height) =
                            (IF k = 1 THEN valueToY(scale, Q(0, 1), arg.chartArea)
                             ELSE segs[k - 1].y)

(* ------------------------------- C17 ---------------------------------- *)

\* C17: generateXAxisTicks returns one tick per label in label order; in
\* flush mode with n >= 2 labels tick i is at area.x + i*area.width/(n-1)
\* (first at area.x, last at area.x + area.width) and a single label's tick
\* is at the horizontal centre; in centered mode tick i is at
\* area.x + (i + 0.5)*area.width/n (first at area.x + segmentWidth/2).
C17_TickPerLabelAtItsPlace ==
    fn = "generateXAxisTicks" =>
        LET n == Len(arg.labels)
            area == arg.area
            flush == arg.options # Undefined /\ Get(arg.options, "flush") = Bool(TRUE)
            segmentWidth == Over(area.width, Q(n, 1))
        IN  /\ Len(result) = n
            /\ \A i \in 0..(n - 1) : result[i + 1].value = arg.labels[i + 1]
            /\ (flush /\ n >= 2) =>
                  /\ \A i \in 0..(n - 1) :
                        result[i + 1].x =
                            Plus(area.x, Over(Times(Q(i, 1), area.width), Q(n - 1, 1)))
                  /\ result[1].x = area.x
                  /\ result[n].x = Plus(area.x, area.width)
            /\ (flush /\ n = 1) =>
                  result[1].x = Plus(area.x, Over(area.width, Q(2, 1)))
            /\ (~flush /\ n >= 1) =>
                  /\ \A i \in 0..(n - 1) :
                        result[i + 1].x =
                            Plus(area.x, Over(Times(Q(2 * i + 1, 2), area.width), Q(n, 1)))
                  /\ result[1].x = Plus(area.x, Over(segmentWidth, Q(2, 1)))

C17_Witness ==
    /\ fn = "generateXAxisTicks"
    /\ Len(arg.labels) = 3
    /\ Get(arg.options, "flush") = Bool(TRUE)
    /\ result[1].x = arg.area.x
    /\ result[3].x = Plus(arg.area.x, arg.area.width)
    /\ result[2].x # result[1].x

(* ------------------------------- C18 ---------------------------------- *)

\* C18: on a line chart, for every scales value (flush true, false or
\* absent), every label count and every index i, getXPosition(i) is the x of
\* X-axis tick i: flush and centered placement are never mixed on the axis.
C18_PointsOnTicks ==
    fn = "LineChart" =>
        /\ Len(result.ticks) = Len(arg.labels)
        /\ \A i \in 1..Len(arg.labels) : result.points[i] = result.ticks[i].x

C18_Witness ==
    /\ fn = "LineChart"
    /\ Len(arg.labels) = 3
    /\ OptGet(OptGet(arg.scales, "x"), "flush") = Bool(TRUE)
    /\ result.points[3] = result.ticks[3].x
    /\ result.points[3] = Plus(arg.chartArea.x, arg.chartArea.width)

(* ------------------------------- C19 ---------------------------------- *)

\* C19: normalising never changes the caller's data object or its dataset
\* objects; in the new objects a missing backgroundColor is the palette colour
\* of the dataset's index, a missing borderWidth is 1 and a missing label is
\* "Dataset N" with N = index + 1, and every field the caller supplied is kept
\* as given.
C19_DefaultsFilledRestKept ==
    fn = "normalisedDatasets" =>
        LET given == Get(arg.data, "datasets").a
            made == result.normalisedDatasets.a
            custom == OptGet(arg.options, "colors")
            palette == IF custom = Undefined THEN DEFAULT_COLORS ELSE custom.a
        IN  /\ result.data = arg.data
            /\ Len(made) = Len(given)
            /\ \A i \in 1..Len(given) :
                  LET own == given[i].f
                      new == made[i].f
                  IN  /\ \A k \in DOMAIN own : k \in DOMAIN new /\ new[k] = own[k]
                      /\ "backgroundColor" \notin DOMAIN own =>
                            new.backgroundColor = Str(getColorByIndex(i - 1, palette))
                      /\ "borderWidth" \notin DOMAIN own => new.borderWidth = Num(1)
                      /\ "label" \notin DOMAIN own =>
                            new.label = Str("Dataset " \o ToString(i))

(* ------------------------------- C20 ---------------------------------- *)

\* C20: a bar-click event of BarChart carries label = labels[labelIndex],
\* value = the clicked bar's data value and datasetIndex = the index of the
\* clicked bar's dataset in the caller's data.datasets, after any sequence of
\* legend toggles, also when datasets with a smaller index are hidden.
C20_ClickNamesCallersDataset ==
    fn = "bar-click" =>
        /\ result.label = labels(data).a[arg.labelIndex + 1]
        /\ result.value =
              Get(Get(data, "datasets").a[arg.dataset + 1], "data").a[arg.labelIndex + 1]
        /\ result.datasetIndex = arg.dataset

(* ------------------------------- C25 ---------------------------------- *)

\* C25: once the component is unmounted, no step other than a call of the
\* returned updateDimensions by the composable's user requests an animation
\* frame or writes width or height, whatever the interleaving of resize
\* notifications, timer expiry, frame firing and unmount.
C25_QuietAfterUnmount ==
    [][phase = "unmounted" /\ directCalls' = directCalls =>
          /\ nextFrameId' = nextFrameId
          /\ width' = width
          /\ height' = height]_vars

(* ------------------------------- C21 ---------------------------------- *)

\* C21: with beginAtZero left at its default, for any non-empty visible data
\* the Y scale's min is at most 0 and valueToHeight is strictly increasing in
\* the value: for data values a < b, valueToHeight(a) < valueToHeight(b).
C21_HeightOrderPreserving ==
    LET sets == arg.datasets.a
        valuesOf(d) == Get(sets[d], "data").a
        values == UNION {{valuesOf(d)[i].n : i \in 1..Len(valuesOf(d))} :
                           d \in 1..Len(sets)}
        barHeight(v) == valueToHeight(result.yScale, Q(v, 1), arg.area)
    IN  (/\ fn = "useChartScale"
         /\ OptGet(OptGet(arg.scaleConfig, "y"), "beginAtZero") # Bool(FALSE)
         /\ values # {})
        => /\ Leq(result.yScale.min, Q(0, 1))
           /\ \A a \in values, b \in values : a < b => Less(barHeight(a), barHeight(b))

(* ------------------------------- C24 ---------------------------------- *)

\* C24: after any sequence of legend toggles, also one that hides every
\* dataset, the Y scale BarChart computes of the visible datasets has a
\* finite min, max and step.
C24_ScaleFiniteAfterToggles ==
    LET scale == yScale(visible, Obj(EmptyRec), Undefined)
    IN  IsFinite(scale.min) /\ IsFinite(scale.max) /\ IsFinite(scale.step)

(* ------------------------------- C29 ---------------------------------- *)

\* C29: for every rendered segment of a stacked chart, the bar-click event's
\* datasetIndex is the index (among the visible datasets) of the dataset whose
\* value the segment shows, and the hover tooltip carries that dataset's label
\* and colour, also at labels where an earlier dataset has a non-positive
\* value and is skipped.
C29_SegmentEventsNameItsDataset ==
    fn = "StackedChart-bar" =>
        LET shown == arg.visibleDatasets.a[arg.bar.datasetIndex + 1]
        IN  /\ result.click.datasetIndex = arg.bar.datasetIndex
            /\ arg.isInteractive =>
                  /\ result.tooltip.data.items[1].label = Get(shown, "label")
                  /\ result.tooltip.data.items[1].color = Get(shown, "backgroundColor")

(* ------------------------------- C28 ---------------------------------- *)

\* C28: in a stacked chart, for visible datasets with values of either sign,
\* the top of every rendered stack (the sum of the positive values at the
\* label) is at most the Y scale's max and every rendered segment lies inside
\* the chart area: area.y <= y and y + height <= area.y + area.height.
C28_StackInsideChartArea ==
    fn = "getStackedBarsForRender" =>
        LET area == arg.chartArea
            scale == yScale(arg.visibleDatasets, Obj([stacked |-> Bool(TRUE)]), arg.scales)
        IN  \A l \in 1..Len(result) : \A k \in 1..Len(result[l]) :
                LET bar == result[l][k]
                IN  /\ Leq(Q(bar.cumulativeValue + bar.value, 1), scale.max)
                    /\ Leq(area.y, bar.y)
                    /\ Leq(Plus(bar.y, bar.height), Plus(area.y, area.height))

(* ------------------------------- C30 ---------------------------------- *)

\* C30: the backgroundColor, borderColor and label a dataset is drawn with
\* are those normalisation gave it at its index in data.datasets, and a
\* visibility toggle (data and options left alone) does not change them for a
\* dataset that was visible before the toggle and is visible after it.
C30_ToggleKeepsOthersLook ==
    LET norm == normalised
        kept == KeptIndices
        drawn == visible
        Position(s, i) == Cardinality({j \in s : j <= i})
        Look(d) == <<Get(d, "backgroundColor"), Get(d, "borderColor"),
                     Get(d, "label")>>
    IN  /\ \A i \in kept :
               Look(drawn.a[Position(kept, i)]) = Look(norm.a[i + 1])
        /\ calls # <<>> =>
               LET keptBefore == {i \in 0..(Len(norm.a) - 1) :
                                     i \notin LastCall.before}
               IN  \A i \in kept \cap keptBefore :
                       Look(drawn.a[Position(kept, i)])
                           = Look(LastCall.visBefore.a[Position(keptBefore, i)])

C30_Witness ==
    /\ Len(normalised.a) = 2
    /\ disabledDatasets = {0}
    /\ Len(calls) > 0
    /\ Get(visible.a[1], "label") = Str("Dataset 2")

(* ------------------------------- C22 ---------------------------------- *)

\* C22: from initial values with 0 <= initialStart, initialEnd <= 100 and
\* initialEnd - initialStart >= minWidth, after any sequence of startDrag,
\* drag moves, stopDrag, key presses on either handle and resetRange:
\* 0 <= rangeStart, rangeEnd <= 100 and rangeEnd - rangeStart >= minWidth.
C22_RangeWithinBounds ==
    /\ Leq(Q(0, 1), rangeStart)
    /\ Leq(rangeStart, Q(100, 1))
    /\ Leq(Q(0, 1), rangeEnd)
    /\ Leq(rangeEnd, Q(100, 1))
    /\ Leq(selector.minWidth, Minus(rangeEnd, rangeStart))

\* a drag and a key press have pushed the range to its minimum width
C22_Witness ==
    /\ events >= 2
    /\ op \in {"pointermove", "keydown"}
    /\ rangeStart # selector.initialStart
    /\ Minus(rangeEnd, rangeStart) = selector.minWidth

(* ------------------------------- C23 ---------------------------------- *)

\* C23: startDrag(handle) enters dragging(handle) and stopDrag returns to
\* idle; a pointer move changes nothing in idle, and while dragging it leaves
\* the other handle's value alone (dragging 'start' keeps rangeEnd, dragging
\* 'end' keeps rangeStart); no other handler changes the drag state.
C23_DragStateMachine ==
    [][events' = events + 1 =>
          /\ op' = "startDrag" => isDragging' /\ dragType' \in {"start", "end"}
          /\ op' = "stopDrag" => ~isDragging' /\ dragType' = "null"
          /\ op' \notin {"startDrag", "stopDrag"} =>
                isDragging' = isDragging /\ dragType' = dragType
          /\ op' = "pointermove" =>
                /\ ~isDragging => rangeStart' = rangeStart /\ rangeEnd' = rangeEnd
                /\ dragType = "start" => rangeEnd' = rangeEnd
                /\ dragType = "end" => rangeStart' = rangeStart]_vars

\* a drag of the start handle has moved rangeStart
C23_Witness ==
    /\ op = "pointermove"
    /\ isDragging
    /\ dragType = "start"
    /\ rangeStart # dragStartValue

(* ------------------------------- C26 ---------------------------------- *)

\* C26: with an onChange callback, when a drag has just ended the range last
\* delivered to onChange is the final (rangeStart, rangeEnd), whatever the
\* timing of the drag moves relative to the throttle window.
C26_LastDeliveredIsFinal ==
    (selector.onChange /\ op = "stopDrag" /\ delivered # Unset)
        => delivered = [start |-> rangeStart, end |-> rangeEnd]

(* ------------------------------- C27 ---------------------------------- *)

\* C27: after any sequence of legend clicks, showAllDatasets and
\* hideAllDatasets calls and data updates, the rendered legend marks index i
\* as disabled exactly when isDatasetDisabled(i) is true, and right after a
\* legend-toggle event its `disabled` field is the chart's disabled state of
\* the event's index.
C27_LegendAgreesWithChart ==
    legendShown =>
        /\ \A i \in 0..(Len(normalised.a) - 1) :
              (i \in legendDisabled) <=> isDatasetDisabled(disabledDatasets, i)
        /\ calls # <<>> =>
              legendEvent.disabled = isDatasetDisabled(disabledDatasets, legendEvent.index)
====
